---------------------------- MODULE Spec2Model ----------------------------
(***************************************************************************)
(* Verification model of wsidicom's instance module                        *)
(* (src/wsidicom/instance.py): the tile indices (FullTileIndex,            *)
(* SparseTileIndex), the tile data engine (ImageData, WsiDicomImageData),  *)
(* the frame-offset-table reader (WsiDicomFile) and the concurrent writer  *)
(* (WsiDicomFileWriter).                                                   *)
(*                                                                         *)
(* Each subsystem has its own group of variables and its own               *)
(* specification; a specification keeps the variables of the other         *)
(* subsystems at their idle value.                                         *)
(***************************************************************************)
EXTENDS Integers, Sequences, FiniteSets, TLC

VARIABLES
    image_data,     \* the open WsiDicomImageData: its files and its tile index
    blank_cache,    \* ImageData._blank_tile / _encoded_blank_tile (lazy caches)
    file_reads,     \* log of the frames read from files (file.read_frame calls)
    tile_result,    \* the last tile request and what it returned
    fp,             \* the DicomFile of the writer: its content and position
    writer,         \* WsiDicomFileWriter.write: arguments, locals, progress
    reader,         \* the WsiDicomFile opened on the written file
    frame_read,     \* the last WsiDicomFile.read_frame call and its result
    pool,           \* the ThreadPoolExecutor of _write_pixel_data and its tasks
    calls,          \* concurrent read_frame calls and the lock of the file
    stitch,         \* a get_tile_range or stitch_tiles call in progress
    opening         \* WsiInstance.open: the files, the instances made of them

idxVars == <<image_data, blank_cache, file_reads, tile_result>>

fileVars == <<fp, writer, reader, frame_read>>

restVars == <<pool, calls, stitch, opening>>

vars == <<image_data, blank_cache, file_reads, tile_result,
          fp, writer, reader, frame_read, pool, calls, stitch,
          opening>>

----------------------------------------------------------------------------
(* Generic helpers *)

Range(s) == {s[i] : i \in DOMAIN s}

Max(a, b) == IF a >= b THEN a ELSE b

Min(a, b) == IF a <= b THEN a ELSE b

\* All sequences without repetition that enumerate exactly the set S
\* (the possible results of Python's list(set)).
Orderings(S) ==
    {s \in [1..Cardinality(S) -> S] : \A i, j \in DOMAIN s : s[i] = s[j] => i = j}

----------------------------------------------------------------------------
(* Geometry primitives (wsidicom.geometry).  Points and sizes are records. *)

Point(x, y) == [x |-> x, y |-> y]

Size(w, h) == [width |-> w, height |-> h]

\* Integer ceiling of a / b for b > 0 and any integer a.
CeilDiv(a, b) == -((-a) \div b)

\* Python's int(a / b): truncation towards zero.
TruncDiv(a, b) == IF a >= 0 THEN a \div b ELSE -((-a) \div b)

\* Size / Size: per-axis division rounded up (the tiled size of an image).
Size_truediv(size, divider) ==
    Size(CeilDiv(size.width, divider.width), CeilDiv(size.height, divider.height))

\* Point // Size: per-axis integer division.
Point_floordiv(point, divider) ==
    Point(TruncDiv(point.x, divider.width), TruncDiv(point.y, divider.height))

\* Point / Size: per-axis division rounded up.
Point_truediv(point, divider) ==
    Point(CeilDiv(point.x, divider.width), CeilDiv(point.y, divider.height))

Size_area(size) == size.width * size.height

\* Region: position + size, with derived start and end.
Region(position, size) == [position |-> position, size |-> size]

Region_start(region) == region.position

Region_end(region) ==
    Point(region.position.x + region.size.width,
          region.position.y + region.size.height)

\* Region.is_inside: this region lies within the other one.
Region_is_inside(region, other) ==
    /\ Region_start(region).x >= Region_start(other).x
    /\ Region_start(region).y >= Region_start(other).y
    /\ Region_end(region).x <= Region_end(other).x
    /\ Region_end(region).y <= Region_end(other).y


----------------------------------------------------------------------------
(* Bounds and input domains of the tile index model *)

MaxFocalPlanes == 2     \* TotalPixelMatrixFocalPlanes of a full-tiled dataset

MaxFrames == 2          \* per-frame entries of a sparse-tiled instance

TileSize == Size(2, 2)                      \* Columns x Rows of one tile

FullImageSizes == {Size(w, h) : w \in {2, 3, 5}, h \in {2, 3}}

SparseImageSizes == {Size(4, 2), Size(2, 3)}

PathSets == {{"0"}, {"0", "1"}}             \* declared OpticalPathIdentifiers

SliceSpacings == {1, 2}                     \* SpacingBetweenSlices, micrometres

ZRaw == {4, 10}         \* ZOffsetInSlideCoordinateSystem, 1/10000 units

NoPath == "none"        \* frame without OpticalPathIdentificationSequence

QueryZ == {0, 1, 2, 4}                      \* 4 is never declared

QueryPaths == {"0", "1", "2"}               \* "2" is never declared

None == [kind |-> "none"]

\* The idle values of the variable groups.
IdleIndex ==
    /\ image_data = None
    /\ blank_cache = [tile |-> FALSE, encoded |-> FALSE]
    /\ file_reads = <<>>
    /\ tile_result = None

IdleFile ==
    /\ fp = None
    /\ writer = None
    /\ reader = None
    /\ frame_read = None

IdleRest ==
    /\ pool = None
    /\ calls = None
    /\ stitch = None
    /\ opening = None

----------------------------------------------------------------------------
(* WsiDataset: the declarations the index reads from one file *)

FullDataset(image_size, planes, spacing, paths) ==
    [tile_type |-> "TILED_FULL", frame_offset |-> 0,
     frame_count |-> Size_area(Size_truediv(image_size, TileSize))
                     * planes * Cardinality(paths),
     image_size |-> image_size, tile_size |-> TileSize,
     number_of_focal_planes |-> planes, spacing_between_slices |-> spacing,
     optical_paths |-> paths, first_path |-> "0", frame_sequence |-> <<>>]

SparseDataset(image_size, paths, frame_offset, frames) ==
    [tile_type |-> "TILED_SPARSE", frame_offset |-> frame_offset,
     frame_count |-> Len(frames),
     image_size |-> image_size, tile_size |-> TileSize,
     number_of_focal_planes |-> 1, spacing_between_slices |-> 0,
     optical_paths |-> paths, first_path |-> "0", frame_sequence |-> frames]

\* WsiDicomFile as seen by the image data: offset, count and dataset.
File(id, dataset) ==
    [id |-> id, frame_offset |-> dataset.frame_offset,
     frame_count |-> dataset.frame_count, dataset |-> dataset]

\* Per-frame functional group entries whose position lies in the image.
FrameEntries(image_size) ==
    LET tiled == Size_truediv(image_size, TileSize) IN
    [column : {tx * TileSize.width + 1 : tx \in 0..(tiled.width - 1)},
     row    : {ty * TileSize.height + 1 : ty \in 0..(tiled.height - 1)},
     z      : ZRaw,
     path   : {NoPath, "1"}]

SeqsUpTo(S, n) == UNION {[1..k -> S] : k \in 1..n}

\* The file lists of one sparse instance: one file, or a concatenation of
\* two files given in either order.
SparseFileListsOf(sz, frames) ==
    LET one == {<<File(1, SparseDataset(sz, {"0", "1"}, 0, frames))>>}
        two == UNION {
                 LET a == File(1, SparseDataset(sz, {"0", "1"}, 0,
                                                SubSeq(frames, 1, k)))
                     b == File(2, SparseDataset(sz, {"0", "1"}, k,
                                      SubSeq(frames, k + 1, Len(frames))))
                 IN {<<a, b>>, <<b, a>>} : k \in 1..(Len(frames) - 1)}
    IN one \cup two

SparseFileLists ==
    UNION {UNION {SparseFileListsOf(sz, frames) :
                    frames \in SeqsUpTo(FrameEntries(sz), MaxFrames)} :
           sz \in SparseImageSizes}

FullFileLists ==
    {<<File(1, FullDataset(sz, p, sp, paths))>> :
        sz \in FullImageSizes, p \in 1..MaxFocalPlanes,
        sp \in SliceSpacings, paths \in PathSets}

----------------------------------------------------------------------------
(* TileIndex, FullTileIndex, SparseTileIndex, SparseTilePlane *)

\* sorted(files, key=frame_offset): the files in ascending frame offset.
RECURSIVE SortByOffset(_)
SortByOffset(files) ==
    IF files = <<>> THEN <<>>
    ELSE LET i == CHOOSE i \in DOMAIN files :
                    \A j \in DOMAIN files :
                        files[i].frame_offset <= files[j].frame_offset
             rest == [k \in 1..(Len(files) - 1) |->
                        IF k < i THEN files[k] ELSE files[k + 1]]
         IN <<files[i]>> \o SortByOffset(rest)

\* TileIndex._read_frame_count_from_datasets
RECURSIVE _read_frame_count_from_datasets(_)
_read_frame_count_from_datasets(datasets) ==
    IF datasets = <<>> THEN 0
    ELSE Head(datasets).frame_count
         + _read_frame_count_from_datasets(Tail(datasets))

\* TileIndex._read_optical_paths_from_datasets: the set behind list(paths).
_read_optical_paths_from_datasets(datasets) ==
    UNION {datasets[i].optical_paths : i \in DOMAIN datasets}

\* FullTileIndex._read_focal_planes_from_datasets: the set behind
\* list(focal_planes); z = round(plane * slice_spacing * 1000, 3) in um.
_read_focal_planes_from_datasets(datasets) ==
    UNION {{plane * datasets[i].spacing_between_slices :
              plane \in 0..(datasets[i].number_of_focal_planes - 1)} :
           i \in DOMAIN datasets}

\* Position of the first element of a list equal to v (0-based), -1 if none:
\* next(index for index, item in enumerate(list) if item == v).
IndexOf(list, v) ==
    IF \E i \in DOMAIN list : list[i] = v
    THEN (CHOOSE i \in DOMAIN list :
            list[i] = v /\ \A j \in 1..(i - 1) : list[j] # v) - 1
    ELSE -1

_get_focal_plane_index(index, z) == IndexOf(index.focal_planes, z)

_get_optical_path_index(index, path) == IndexOf(index.optical_paths, path)

Answer(v) == [err |-> "none", v |-> v]

Raise(err) == [err |-> err, v |-> 0]

\* Variant of FullTileIndex.get_frame_index that strides rows by the tiled
\* height instead of the tiled width.
Full_get_frame_index_height_stride(index, tile, z, path) ==
    LET plane_offset == tile.x + index.tiled_size.height * tile.y
        z_offset == IndexOf(index.focal_planes, z) * Size_area(index.tiled_size)
        path_offset == IndexOf(index.optical_paths, path)
                       * Len(index.focal_planes) * Size_area(index.tiled_size)
    IN IF IndexOf(index.focal_planes, z) = -1
          \/ IndexOf(index.optical_paths, path) = -1
       THEN [err |-> "WsiDicomNotFoundError", v |-> 0]
       ELSE [err |-> "none", v |-> plane_offset + z_offset + path_offset]

\* FullTileIndex.get_frame_index
Full_get_frame_index(index, tile, z, path) ==
    LET plane_offset == tile.x + index.tiled_size.width * tile.y
        z_offset == _get_focal_plane_index(index, z)
                    * Size_area(index.tiled_size)
        path_offset == _get_optical_path_index(index, path)
                       * Len(index.focal_planes) * Size_area(index.tiled_size)
    IN IF _get_focal_plane_index(index, z) = -1
          \/ _get_optical_path_index(index, path) = -1
       THEN Raise("WsiDicomNotFoundError")
       ELSE Answer(plane_offset + z_offset + path_offset)

\* Variant of SparseTilePlane.__init__ that fills the plane with zeros.
SparseTilePlane_zeros(tiled_size) ==
    [p \in (0..(tiled_size.width - 1)) \X (0..(tiled_size.height - 1)) |-> 0]

\* SparseTilePlane.__init__: np.full(tiled_size.to_tuple(), -1)
SparseTilePlane(tiled_size) ==
    [p \in (0..(tiled_size.width - 1)) \X (0..(tiled_size.height - 1)) |-> -1]

\* SparseTileIndex._read_frame_coordinates: tile and rounded z of a frame.
Round3(z) == (z + 5) \div 10

_read_frame_coordinates(tile_size, frame) ==
    [tile |-> Point_floordiv(Point(frame.column - 1, frame.row - 1), tile_size),
     z |-> Round3(frame.z)]

\* WsiDataset.read_optical_path_identifier
read_optical_path_identifier(dataset, frame) ==
    IF frame.path = NoPath THEN dataset.first_path ELSE frame.path

\* Variant of SetPlane that keeps the entry of the first frame claiming a
\* tile.
SetPlane_first_wins(planes, tiled_size, key, tile, frame_index) ==
    LET plane == IF key \in DOMAIN planes THEN planes[key]
                 ELSE SparseTilePlane(tiled_size)
        updated == IF plane[<<tile.x, tile.y>>] = -1
                   THEN [plane EXCEPT ![<<tile.x, tile.y>>] = frame_index]
                   ELSE plane
    IN [k \in DOMAIN planes \cup {key} |->
          IF k = key THEN updated ELSE planes[k]]

\* SparseTilePlane.__setitem__ on the plane keyed (z, identifier), which is
\* created when missing.
SetPlane(planes, tiled_size, key, tile, frame_index) ==
    LET plane == IF key \in DOMAIN planes THEN planes[key]
                 ELSE SparseTilePlane(tiled_size)
        updated == [plane EXCEPT ![<<tile.x, tile.y>>] = frame_index]
    IN [k \in DOMAIN planes \cup {key} |->
          IF k = key THEN updated ELSE planes[k]]

\* The loop body of _read_planes_from_datasets for frame i (0-based) of a
\* dataset.
ReadFrame(planes, tiled_size, dataset, i) ==
    LET frame == dataset.frame_sequence[i + 1]
        c == _read_frame_coordinates(dataset.tile_size, frame)
        identifier == read_optical_path_identifier(dataset, frame)
    IN SetPlane(planes, tiled_size, <<c.z, identifier>>, c.tile,
                i + dataset.frame_offset)

RECURSIVE ReadDatasetFrames(_, _, _, _)
ReadDatasetFrames(planes, tiled_size, dataset, i) ==
    IF i >= Len(dataset.frame_sequence) THEN planes
    ELSE ReadDatasetFrames(ReadFrame(planes, tiled_size, dataset, i),
                           tiled_size, dataset, i + 1)

\* SparseTileIndex._read_planes_from_datasets
RECURSIVE ReadPlanes(_, _, _)
ReadPlanes(planes, tiled_size, datasets) ==
    IF datasets = <<>> THEN planes
    ELSE ReadPlanes(ReadDatasetFrames(planes, tiled_size, Head(datasets), 0),
                    tiled_size, Tail(datasets))

_read_planes_from_datasets(tiled_size, datasets) ==
    ReadPlanes(<<>>, tiled_size, datasets)

\* SparseTileIndex._get_focal_planes: the set behind list(focal_planes).
_get_focal_planes(planes) == {key[1] : key \in DOMAIN planes}

\* SparseTileIndex.get_frame_index
Sparse_get_frame_index(index, tile, z, path) ==
    IF <<z, path>> \notin DOMAIN index.planes
    THEN Raise("WsiDicomNotFoundError")
    ELSE Answer(index.planes[<<z, path>>][<<tile.x, tile.y>>])

\* TileIndex.get_frame_index, dispatched on the index variant.
get_frame_index(index, tile, z, path) ==
    IF index.kind = "full" THEN Full_get_frame_index(index, tile, z, path)
    ELSE Sparse_get_frame_index(index, tile, z, path)

\* The sets whose list() order the index fixes at construction.
FocalPlaneSet(files) ==
    LET datasets == [i \in DOMAIN files |-> SortByOffset(files)[i].dataset]
    IN IF files[1].dataset.tile_type = "TILED_FULL"
       THEN _read_focal_planes_from_datasets(datasets)
       ELSE _get_focal_planes(_read_planes_from_datasets(
                Size_truediv(datasets[1].image_size, datasets[1].tile_size),
                datasets))

OpticalPathSet(files) ==
    _read_optical_paths_from_datasets([i \in DOMAIN files |-> files[i].dataset])

\* WsiDicomImageData.__init__ with TileIndex.__init__ and the subclass
\* constructors; focal_planes and optical_paths are the list() orders.
WsiDicomImageData(files, focal_planes, optical_paths) ==
    LET sorted == SortByOffset(files)
        datasets == [i \in DOMAIN sorted |-> sorted[i].dataset]
        base_dataset == datasets[1]
        tiled_size == Size_truediv(base_dataset.image_size,
                                   base_dataset.tile_size)
        full == files[1].dataset.tile_type = "TILED_FULL"
    IN [kind |-> "image_data",
        files |-> sorted,
        tiles |-> [kind |-> IF full THEN "full" ELSE "sparse",
                   image_size |-> base_dataset.image_size,
                   tile_size |-> base_dataset.tile_size,
                   tiled_size |-> tiled_size,
                   frame_count |-> _read_frame_count_from_datasets(datasets),
                   optical_paths |-> optical_paths,
                   focal_planes |-> focal_planes,
                   planes |-> IF full THEN <<>>
                              ELSE _read_planes_from_datasets(tiled_size,
                                                              datasets)]]

----------------------------------------------------------------------------
(* ImageData / WsiDicomImageData: tile requests *)

\* ImageData.plane_region: Region(Point(0, 0), tiled_size - 1)
plane_region(data) ==
    Region(Point(0, 0), Size(data.tiles.tiled_size.width - 1,
                             data.tiles.tiled_size.height - 1))

\* Variant of valid_tiles that does not look at the optical path.
valid_tiles_any_path(data, region, z, path) ==
    /\ Region_is_inside(region, plane_region(data))
    /\ z \in Range(data.tiles.focal_planes)

\* ImageData.valid_tiles
valid_tiles(data, region, z, path) ==
    /\ Region_is_inside(region, plane_region(data))
    /\ z \in Range(data.tiles.focal_planes)
    /\ path \in Range(data.tiles.optical_paths)

\* WsiDicomImageData._get_frame_index: the frame index or the error raised,
\* and the number of calls made to the tile index.
_get_frame_index(data, tile, z, path) ==
    LET tile_region == Region(tile, Size(0, 0))
        frame_index == get_frame_index(data.tiles, tile, z, path)
    IN IF ~valid_tiles(data, tile_region, z, path)
       THEN [err |-> "WsiDicomOutOfBoundsError", v |-> 0, index_calls |-> 0]
       ELSE [err |-> frame_index.err, v |-> frame_index.v, index_calls |-> 1]

\* Variant of _get_file that does not look at the end of a file's frames.
_get_file_no_end(data, frame_index) ==
    LET holds(i) == frame_index >= data.files[i].frame_offset
    IN IF \E i \in DOMAIN data.files : holds(i)
       THEN CHOOSE i \in DOMAIN data.files :
                holds(i) /\ \A j \in 1..(i - 1) : ~holds(j)
       ELSE 0

\* WsiDicomImageData._get_file: the first file, in offset order, whose frame
\* range holds frame_index; 0 stands for WsiDicomNotFoundError.
_get_file(data, frame_index) ==
    LET holds(i) == /\ frame_index < data.files[i].frame_offset
                                     + data.files[i].frame_count
                    /\ frame_index >= data.files[i].frame_offset
    IN IF \E i \in DOMAIN data.files : holds(i)
       THEN CHOOSE i \in DOMAIN data.files :
                holds(i) /\ \A j \in 1..(i - 1) : ~holds(j)
       ELSE 0

\* WsiDicomFile.get_filepointer: the local index of a global frame number.
LocalFrameIndex(file, frame_index) == frame_index - file.frame_offset

\* The frame a tile request locates, as WsiDicomImageData._get_tile_frame
\* reads it: [file id, local frame index], or the error raised.
_get_tile_frame(data, frame_index) ==
    LET f == _get_file(data, frame_index) IN
    IF f = 0 THEN [err |-> "WsiDicomNotFoundError", reads |-> <<>>]
    ELSE [err |-> "none",
          reads |-> <<[file |-> data.files[f].id,
                       local |-> LocalFrameIndex(data.files[f], frame_index)]>>]

\* WsiDicomImageData._get_encoded_tile (decoded = FALSE) and
\* _get_decoded_tile (decoded = TRUE), with the lazy blank-tile caches of
\* ImageData.blank_tile / blank_encoded_tile.
GetTile(decoded, tile, z, path) ==
    LET frame_index == _get_frame_index(image_data, tile, z, path)
        request == [decoded |-> decoded, tile |-> tile, z |-> z, path |-> path]
    IN
    /\ image_data # None
    /\ IF frame_index.err # "none"
       THEN /\ tile_result' = [request |-> request, err |-> frame_index.err,
                               frame_index |-> 0, out |-> "error",
                               index_calls |-> frame_index.index_calls]
            /\ file_reads' = <<>>
            /\ UNCHANGED blank_cache
       ELSE IF frame_index.v = -1
       THEN /\ tile_result' = [request |-> request, err |-> "none",
                               frame_index |-> -1,
                               out |-> IF decoded THEN "blank_tile"
                                       ELSE "blank_encoded_tile",
                               index_calls |-> frame_index.index_calls]
            /\ file_reads' = <<>>
            /\ blank_cache' = IF decoded
                              THEN [blank_cache EXCEPT !.tile = TRUE]
                              ELSE [tile |-> TRUE, encoded |-> TRUE]
       ELSE LET frame == _get_tile_frame(image_data, frame_index.v) IN
            /\ tile_result' = [request |-> request, err |-> frame.err,
                               frame_index |-> frame_index.v,
                               out |-> IF frame.err # "none" THEN "error"
                                       ELSE IF decoded THEN "decoded_frame"
                                       ELSE "frame",
                               index_calls |-> frame_index.index_calls]
            /\ file_reads' = frame.reads
            /\ UNCHANGED blank_cache
    /\ UNCHANGED <<image_data, fileVars, restVars>>

_get_encoded_tile(tile, z, path) == GetTile(FALSE, tile, z, path)

_get_decoded_tile(tile, z, path) == GetTile(TRUE, tile, z, path)

\* Tile coordinates asked for: the plane and one ring around it.
QueryTiles ==
    {Point(x, y) : x \in -1..image_data.tiles.tiled_size.width,
                   y \in -1..image_data.tiles.tiled_size.height}

\* Tile coordinates of the plane.
PlaneTiles ==
    {Point(x, y) : x \in 0..(image_data.tiles.tiled_size.width - 1),
                   y \in 0..(image_data.tiles.tiled_size.height - 1)}

InitIndexOf(file_lists, any_order) ==
    /\ \E files \in file_lists :
         \E fo \in Orderings(FocalPlaneSet(files)),
            po \in Orderings(OpticalPathSet(files)) :
              /\ any_order
                 \/ /\ fo = CHOOSE o \in Orderings(FocalPlaneSet(files)) : TRUE
                    /\ po = CHOOSE o \in Orderings(OpticalPathSet(files)) : TRUE
              /\ image_data = WsiDicomImageData(files, fo, po)
    /\ blank_cache = [tile |-> FALSE, encoded |-> FALSE]
    /\ file_reads = <<>>
    /\ tile_result = None
    /\ IdleFile
    /\ IdleRest

\* Full-tiled instances, any tile request.  A full index keeps no state
\* between requests, so each request is made on the constructed instance.
InitIndex == InitIndexOf(FullFileLists, TRUE)

NextIndex ==
    /\ tile_result = None
    /\ \E tile \in QueryTiles, z \in QueryZ, path \in QueryPaths :
           \/ _get_encoded_tile(tile, z, path)
           \/ _get_decoded_tile(tile, z, path)

SpecIndex == InitIndex /\ [][NextIndex]_vars

\* Sparse-tiled instances, requests for tiles of the plane.  A sparse index
\* uses its focal-plane and optical-path lists for membership only, so one
\* list order stands for all.
InitSparse == InitIndexOf(SparseFileLists, FALSE)

NextSparse ==
    \E tile \in PlaneTiles, z \in {0, 1}, path \in {"0", "1"} :
        \/ _get_encoded_tile(tile, z, path)
        \/ _get_decoded_tile(tile, z, path)

SpecSparse == InitSparse /\ [][NextSparse]_vars

----------------------------------------------------------------------------
(* Properties of the tile indices *)

Requested == tile_result # None

\* C1: for a full tile index with tiled size W x H, P focal planes and O
\* optical paths, get_frame_index(tile (x, y), z, path) is
\* x + W*y + z_idx*W*H + path_idx*P*W*H, z_idx and path_idx being the
\* positions of z and path in the index's lists, and over all valid
\* (x, y, z, path) this map is a bijection onto [0, W*H*P*O).
C1_FullIndexArithmetic ==
    image_data.tiles.kind = "full" =>
    LET index == image_data.tiles
        W == index.tiled_size.width
        H == index.tiled_size.height
        P == Len(index.focal_planes)
        O == Len(index.optical_paths)
        Valid == (0..(W - 1)) \X (0..(H - 1)) \X (1..P) \X (1..O)
        Number(t) == t[1] + W * t[2] + (t[3] - 1) * W * H
                     + (t[4] - 1) * P * W * H
        frame == [t \in Valid |->
                    Full_get_frame_index(index, Point(t[1], t[2]),
                        index.focal_planes[t[3]], index.optical_paths[t[4]])]
        numbers == {frame[t].v : t \in Valid}
    IN /\ \A t \in Valid : frame[t].err = "none" /\ frame[t].v = Number(t)
       /\ Cardinality(numbers) = Cardinality(Valid)
       /\ numbers = 0..(W * H * P * O - 1)
       /\ (Requested /\ tile_result.err = "none") =>
            \E t \in Valid :
               /\ tile_result.request.tile = Point(t[1], t[2])
               /\ tile_result.request.z = index.focal_planes[t[3]]
               /\ tile_result.request.path = index.optical_paths[t[4]]
               /\ tile_result.frame_index = Number(t)

\* A request on a full index with W # H, W, H, P, O > 1, for a tile with
\* x, y > 0 on a plane and a path that are not the first of their lists.
C1_Witness ==
    /\ image_data.tiles.kind = "full"
    /\ Requested
    /\ tile_result.err = "none"
    /\ image_data.tiles.tiled_size.width = 3
    /\ image_data.tiles.tiled_size.height = 2
    /\ tile_result.request.tile = Point(2, 1)
    /\ Len(image_data.tiles.focal_planes) = 2
    /\ Len(image_data.tiles.optical_paths) = 2
    /\ tile_result.request.z = image_data.tiles.focal_planes[2]
    /\ tile_result.request.path = image_data.tiles.optical_paths[2]
    /\ tile_result.frame_index = 2 + 3 * 1 + 6 + 12

\* The global frame numbers whose per-frame entry designates (tile, z, path).
Claimants(tile, z, path) ==
    {g \in 0..(image_data.tiles.frame_count - 1) :
        \E f \in DOMAIN image_data.files :
            LET file == image_data.files[f]
                i == g - file.frame_offset
            IN /\ i >= 0
               /\ i < Len(file.dataset.frame_sequence)
               /\ LET frame == file.dataset.frame_sequence[i + 1] IN
                  /\ (frame.column - 1) \div TileSize.width = tile.x
                  /\ (frame.row - 1) \div TileSize.height = tile.y
                  /\ (frame.z + 5) \div 10 = z
                  /\ path = IF frame.path = NoPath THEN "0" ELSE frame.path}

SetMax(S) == CHOOSE m \in S : \A n \in S : n <= m

PlaneKeys == {0, 1} \X {"0", "1"}

\* C6: in a sparse tile index every tile coordinate of a (z, path) plane that
\* no frame claims maps to -1, and a request for such a tile returns the
\* cached blank tile (decoded) or the cached encoded blank tile, without
\* locating or reading a frame in a file.
C6_SparseSentinel ==
    image_data.tiles.kind = "sparse" =>
    /\ \A key \in DOMAIN image_data.tiles.planes : \A tile \in PlaneTiles :
          Claimants(tile, key[1], key[2]) = {} =>
             Sparse_get_frame_index(image_data.tiles, tile, key[1], key[2])
                = Answer(-1)
    /\ (/\ Requested
        /\ <<tile_result.request.z, tile_result.request.path>>
              \in DOMAIN image_data.tiles.planes
        /\ Claimants(tile_result.request.tile, tile_result.request.z,
                     tile_result.request.path) = {})
       => /\ tile_result.err = "none"
          /\ tile_result.frame_index = -1
          /\ tile_result.out = IF tile_result.request.decoded
                               THEN "blank_tile" ELSE "blank_encoded_tile"
          /\ file_reads = <<>>
          /\ blank_cache.tile
          /\ ~tile_result.request.decoded => blank_cache.encoded

\* An encoded-tile request for an unclaimed tile of an existing plane was
\* answered with the encoded blank tile.
C6_Witness ==
    /\ image_data.tiles.kind = "sparse"
    /\ Requested
    /\ ~tile_result.request.decoded
    /\ <<tile_result.request.z, tile_result.request.path>>
          \in DOMAIN image_data.tiles.planes
    /\ Claimants(tile_result.request.tile, tile_result.request.z,
                 tile_result.request.path) = {}
    /\ tile_result.out = "blank_encoded_tile"
    /\ file_reads = <<>>

\* C7: after a SparseTileIndex is built, the entry for (tile, z, path) holds
\* frame_offset + i of the last frame, in file order and then in-file frame
\* order, whose per-frame entry designates it; other coordinates and planes
\* are unaffected (a coordinate no frame designates holds -1, a plane no
\* frame designates does not exist).
C7_SparseLastWriteWins ==
    image_data.tiles.kind = "sparse" =>
    \A key \in PlaneKeys : \A tile \in PlaneTiles :
        LET claimants == Claimants(tile, key[1], key[2])
            planes == image_data.tiles.planes
        IN /\ key \in DOMAIN planes <=>
                \E t \in PlaneTiles : Claimants(t, key[1], key[2]) # {}
           /\ key \in DOMAIN planes =>
                planes[key][<<tile.x, tile.y>>] =
                    IF claimants = {} THEN -1 ELSE SetMax(claimants)

\* A coordinate claimed by a frame of each of two concatenated files holds
\* the number of the frame of the second file, and the other tile of the
\* plane still holds -1.
C7_Witness ==
    /\ image_data.tiles.kind = "sparse"
    /\ Len(image_data.files) = 2
    /\ \E key \in DOMAIN image_data.tiles.planes : \E tile, other \in PlaneTiles :
          /\ Claimants(tile, key[1], key[2]) = {0, 1}
          /\ image_data.tiles.planes[key][<<tile.x, tile.y>>] = 1
          /\ other # tile
          /\ image_data.tiles.planes[key][<<other.x, other.y>>] = -1

----------------------------------------------------------------------------
(* The binary file.  A file is a sequence of elements, each a run of bytes  *)
(* of one kind: a 4-byte tag, a 4-byte VR field (VR + reserved), a 4-byte   *)
(* unsigned long (UL), an 8-byte unsigned long long (UQ), the payload of an *)
(* encoded tile, a pad byte, or the preamble, file meta and base dataset.   *)
(* Positions and lengths are in bytes; `at` is the position of an element.  *)
(* The 32-bit width of a UL is scaled to ULBits bits and the 64-bit width   *)
(* of a UQ to 2 * ULBits bits, so that offsets beyond the UL range occur    *)
(* with small frames; field sizes in the layout keep 4 and 8 bytes.         *)

ULBits == 6

UL_MAX == 2 ^ ULBits - 1                \* 2**32 - 1, also 0xFFFFFFFF

UQ_MAX == 2 ^ (2 * ULBits) - 1          \* 2**64 - 1

HeaderLen == 5      \* bytes of preamble, file meta and base dataset

TAG_BYTES == 4

LENGHT_BYTES == 4

Elem(k, v, n) == [k |-> k, v |-> v, n |-> n, at |-> 0]

TagElem(name) == Elem("tag", name, TAG_BYTES)

VRElem(name) == Elem("vr", name, 4)

ULElem(value) == Elem("ul", value, 4)

UQElem(value) == Elem("uq", value, 8)

FileEnd(data) ==
    IF data = <<>> THEN 0 ELSE data[Len(data)].at + data[Len(data)].n

\* Index of the element that starts at pos, 0 if no element starts there.
IndexAt(data, pos) ==
    IF \E i \in DOMAIN data : data[i].at = pos
    THEN CHOOSE i \in DOMAIN data : data[i].at = pos
    ELSE 0

\* fp.write at the current position: appends at the end of the file,
\* overwrites an element of the same size in place; bytes written across
\* element boundaries leave garbage.
fp_write(f, e) ==
    LET i == IndexAt(f.data, f.pos) IN
    IF f.pos = FileEnd(f.data)
    THEN [data |-> Append(f.data, [e EXCEPT !.at = f.pos]),
          pos |-> f.pos + e.n]
    ELSE IF i # 0 /\ f.data[i].n = e.n
    THEN [data |-> [f.data EXCEPT ![i] = [e EXCEPT !.at = f.pos]],
          pos |-> f.pos + e.n]
    ELSE [data |-> [j \in DOMAIN f.data |->
                      IF f.data[j].at < f.pos + e.n
                         /\ f.pos < f.data[j].at + f.data[j].n
                      THEN [f.data[j] EXCEPT !.k = "garbage", !.v = 0]
                      ELSE f.data[j]],
          pos |-> f.pos + e.n]

RECURSIVE fp_write_all(_, _)
fp_write_all(f, elems) ==
    IF elems = <<>> THEN f
    ELSE fp_write_all(fp_write(f, Head(elems)), Tail(elems))

fp_seek(f, pos) == [f EXCEPT !.pos = pos]

\* fp.read_tag at a position: the tag found there.
read_tag(data, pos) ==
    LET i == IndexAt(data, pos) IN
    IF i # 0 /\ data[i].k = "tag" THEN data[i].v
    ELSE IF pos >= FileEnd(data) THEN "EOF" ELSE "Garbage"

\* fp.read_UL at a position: the unsigned long found there.
read_UL(data, pos) ==
    LET i == IndexAt(data, pos) IN
    IF i # 0 /\ data[i].k = "ul" THEN data[i].v ELSE -1

\* fp.read(length) at a position: the elements that make up these bytes.
fp_read(data, pos, length) ==
    LET first == IndexAt(data, pos)
        last == IF \E i \in DOMAIN data : data[i].at + data[i].n = pos + length
                THEN CHOOSE i \in DOMAIN data :
                        data[i].at + data[i].n = pos + length
                ELSE 0
    IN IF length = 0 THEN <<>>
       ELSE IF first = 0 \/ last = 0 \/ length < 0
       THEN <<Elem("garbage", 0, length)>>
       ELSE [j \in 1..(last - first + 1) |->
               [data[first + j - 1] EXCEPT !.at = 0]]

\* MetaWsiDicomFile._read_tag_length at a position (explicit VR files): the
\* length read and the position after it.
_read_tag_length(data, pos, with_vr) ==
    IF with_vr THEN [v |-> read_UL(data, pos + 4), pos |-> pos + 8]
    ELSE [v |-> read_UL(data, pos), pos |-> pos + 4]

\* MetaWsiDicomFile._check_tag_and_length at the position of f: the error
\* raised ("none" if the tag and the length are the expected ones) and the
\* position after the check.
_check_tag_and_length(f, tag, length, with_vr) ==
    LET read_length == _read_tag_length(f.data, f.pos + TAG_BYTES, with_vr) IN
    [err |-> IF read_tag(f.data, f.pos) # tag THEN "ValueError"
             ELSE IF read_length.v # length THEN "ValueError"
             ELSE "none",
     pos |-> read_length.pos]

\* pydicom.encaps.itemize_frame(tile, 1): one item holding the tile, padded
\* to even length.
itemize_frame(tile) ==
    <<TagElem("Item"), ULElem(tile.n + (tile.n % 2)),
      Elem("data", tile.id, tile.n)>>
    \o (IF tile.n % 2 = 1 THEN <<Elem("pad", 0, 1)>> ELSE <<>>)

----------------------------------------------------------------------------
(* WsiDicomFileWriter *)

TileLens == {2, 3, 60}      \* byte lengths of encoded tiles

ScaledTileLens == {3, 4}    \* byte lengths of re-encoded scaled tiles

WriterTiledSizes == {Size(1, 1), Size(2, 1), Size(1, 2)}

OffsetTables == {"bot", "eot", "none"}

Scales == {1, 2}

ChunkSizes == {1, 2}

\* Size / int: per-axis division rounded up.
Size_truediv_int(size, divider) ==
    Size(CeilDiv(size.width, divider), CeilDiv(size.height, divider))

\* Region.iterate_all() of Region(Point(x, y), Size(width, 1)).
RowPoints(x, y, width) == [i \in 1..width |-> Point(x + i - 1, y)]

\* Variant of the effective chunk size that ignores the minimum chunk hint.
EffectiveChunkSize_no_hint(minimum_chunk_size, chunk_size) == chunk_size

\* WsiDicomFileWriter._chunk_tile_points: the effective chunk size.
EffectiveChunkSize(minimum_chunk_size, chunk_size) ==
    Max(minimum_chunk_size,
        (chunk_size \div minimum_chunk_size) * minimum_chunk_size)

RECURSIVE Flatten(_)
Flatten(seqs) == IF seqs = <<>> THEN <<>> ELSE Head(seqs) \o Flatten(Tail(seqs))

\* Variant of _chunk_tile_points that does not cut the last chunk of a row.
_chunk_tile_points_uncut(tiled_size, minimum_chunk_size, requested_chunk_size, scale) ==
    LET chunk_size == EffectiveChunkSize(minimum_chunk_size,
                                         requested_chunk_size)
        new_tiled_size == Size_truediv_int(tiled_size, scale)
        starts == CeilDiv(new_tiled_size.width, chunk_size)
        row(y) == [c \in 1..starts |->
                     RowPoints((c - 1) * chunk_size, y, chunk_size)]
    IN Flatten([r \in 1..new_tiled_size.height |-> row(r - 1)])

\* WsiDicomFileWriter._chunk_tile_points: the chunks, in generation order.
_chunk_tile_points(tiled_size, minimum_chunk_size, requested_chunk_size, scale) ==
    LET chunk_size == EffectiveChunkSize(minimum_chunk_size,
                                         requested_chunk_size)
        new_tiled_size == Size_truediv_int(tiled_size, scale)
        starts == CeilDiv(new_tiled_size.width, chunk_size)
        row(y) == [c \in 1..starts |->
                     LET x == (c - 1) * chunk_size IN
                     RowPoints(x, y, Min(chunk_size, new_tiled_size.width - x))]
    IN Flatten([r \in 1..new_tiled_size.height |-> row(r - 1)])

\* ImageData.get_encoded_tiles / get_scaled_encoded_tiles of the tile source
\* for the plane with index plane: the encoded tile of each point.
get_tiles(source, plane, scale, tile_points) ==
    [i \in DOMAIN tile_points |->
        LET id == <<plane, tile_points[i].x, tile_points[i].y, scale>> IN
        [id |-> id,
         n |-> IF scale = 1 THEN source.lens[<<plane, id[2], id[3]>>]
               ELSE source.scaled_len]]

\* ImageData.get_frame_information and WsiDataset.as_tiled_full: the
\* NumberOfFrames declared for the written dataset.
as_tiled_full_NumberOfFrames(source, scale) ==
    LET focal_planes == Cardinality({source.planes[i][2] : i \in DOMAIN source.planes})
        optical_paths == Cardinality({source.planes[i][1] : i \in DOMAIN source.planes})
        tile_count == Size_area(source.tiled_size)
    IN Max((tile_count * focal_planes * optical_paths) \div (scale * scale), 1)

\* _write_tag: tag, VR with two reserved bytes, length (0xFFFFFFFF if None).
_write_tag(f, tag, value_representation, length) ==
    fp_write_all(f, <<TagElem(tag), VRElem(value_representation), ULElem(length)>>)

Zeros(n, e) == [i \in 1..n |-> e]

\* WsiDicomFileWriter._reserve_eot
_reserve_eot(f, number_of_frames) ==
    LET eot_length == 8 * number_of_frames
        f1 == _write_tag(f, "ExtendedOffsetTable", "OV", eot_length)
        f2 == fp_write_all(f1, Zeros(number_of_frames, UQElem(0)))
        f3 == _write_tag(f2, "ExtendedOffsetTableLengths", "OV", eot_length)
    IN fp_write_all(f3, Zeros(number_of_frames, UQElem(0)))

\* Variant of _reserve_bot that writes the item's header without entries.
_reserve_bot_header_only(f, number_of_frames) ==
    fp_write_all(f, <<TagElem("Item"), ULElem(4 * number_of_frames)>>)

\* WsiDicomFileWriter._reserve_bot
_reserve_bot(f, number_of_frames) ==
    fp_write_all(fp_write_all(f, <<TagElem("Item"), ULElem(4 * number_of_frames)>>),
                 Zeros(number_of_frames, ULElem(0)))

\* Variant of _write_pixel_data_start that reserves the basic offset table
\* in every mode but none.
_write_pixel_data_start_bot_reserved(f, number_of_frames, offset_table) ==
    LET f1 == IF offset_table = "eot" THEN _reserve_eot(f, number_of_frames)
              ELSE f
        f2 == _write_tag(f1, "PixelData", "OB", UL_MAX)
        f3 == IF offset_table # "none" THEN _reserve_bot(f2, number_of_frames)
              ELSE fp_write_all(f2, <<TagElem("Item"), ULElem(0)>>)
    IN [fp |-> f3,
        table_start |-> IF offset_table = "eot" THEN f.pos
                        ELSE IF offset_table = "bot" THEN f2.pos
                        ELSE -1,
        pixel_data_start |-> f3.pos]

\* WsiDicomFileWriter._write_pixel_data_start: the file, the start of the
\* table (-1 for None) and the start of the pixel data.
_write_pixel_data_start(f, number_of_frames, offset_table) ==
    LET f1 == IF offset_table = "eot" THEN _reserve_eot(f, number_of_frames)
              ELSE f
        f2 == _write_tag(f1, "PixelData", "OB", UL_MAX)
        f3 == IF offset_table = "bot" THEN _reserve_bot(f2, number_of_frames)
              ELSE fp_write_all(f2, <<TagElem("Item"), ULElem(0)>>)
    IN [fp |-> f3,
        table_start |-> IF offset_table = "eot" THEN f.pos
                        ELSE IF offset_table = "bot" THEN f2.pos
                        ELSE -1,
        pixel_data_start |-> f3.pos]

\* The loop of _write_pixel_data over the tiles drained from the pool: each
\* tile is itemized, its position recorded and its item written.
RECURSIVE WriteTiles(_, _, _)
WriteTiles(f, frame_positions, tiles) ==
    IF tiles = <<>> THEN [fp |-> f, frame_positions |-> frame_positions]
    ELSE WriteTiles(fp_write_all(f, itemize_frame(Head(tiles))),
                    Append(frame_positions, f.pos), Tail(tiles))

\* WsiDicomFileWriter._write_pixel_data for one plane; pool.map hands the
\* chunk results over in submission order.
_write_pixel_data(f, source, plane, chunk_size, scale) ==
    LET chunks == _chunk_tile_points(source.tiled_size,
                       source.minimum_chunk_size, chunk_size, scale)
        results == [c \in DOMAIN chunks |->
                       get_tiles(source, plane, scale, chunks[c])]
    IN WriteTiles(f, <<>>, Flatten(results))

\* WsiDicomFileWriter._write_pixel_data_end
_write_pixel_data_end(f) ==
    fp_write_all(f, <<TagElem("SequenceDelimiter"), ULElem(0)>>)

\* Variant of the range check of _write_bot that looks at the first entry.
BotOverflow_first_entry(frame_positions, pixel_data_start) ==
    frame_positions[1] - pixel_data_start > UL_MAX

\* WsiDicomFileWriter._write_bot: the check that the last entry fits.
BotOverflow(frame_positions, pixel_data_start) ==
    frame_positions[Len(frame_positions)] - pixel_data_start > UL_MAX

\* WsiDicomFileWriter._write_bot: the file and the error raised.
_write_bot(f, bot_start, pixel_data_start, frame_positions) ==
    LET f1 == fp_seek(f, bot_start)
        check == _check_tag_and_length(f1, "Item", 4 * Len(frame_positions),
                                       FALSE)
        entries == [i \in DOMAIN frame_positions |->
                      ULElem(frame_positions[i] - pixel_data_start)]
    IN IF BotOverflow(frame_positions, pixel_data_start)
       THEN [fp |-> f, err |-> "NotImplementedError"]
       ELSE IF check.err # "none"
       THEN [fp |-> fp_seek(f1, check.pos), err |-> check.err]
       ELSE [fp |-> fp_write_all(fp_seek(f1, check.pos), entries),
             err |-> "none"]

\* WsiDicomFileWriter._write_eot: the file and the error raised.
_write_eot(f, eot_start, pixel_data_start, frame_positions, last_frame_end) ==
    LET n == Len(frame_positions)
        f1 == fp_seek(f, eot_start)
        check1 == _check_tag_and_length(f1, "ExtendedOffsetTable", 8 * n, TRUE)
        offsets == [i \in 1..n |->
                      UQElem(frame_positions[i] - pixel_data_start)]
        f2 == fp_write_all(fp_seek(f1, check1.pos), offsets)
        check2 == _check_tag_and_length(f2, "ExtendedOffsetTableLengths",
                                        8 * n, TRUE)
        lengths == [i \in 1..n |->
                      IF i < n
                      THEN UQElem(frame_positions[i + 1] - frame_positions[i])
                      ELSE UQElem(last_frame_end - (frame_positions[n]
                                      + TAG_BYTES + LENGHT_BYTES))]
    IN IF frame_positions[n] - pixel_data_start > UQ_MAX
       THEN [fp |-> f, err |-> "ValueError"]
       ELSE IF check1.err # "none"
       THEN [fp |-> fp_seek(f1, check1.pos), err |-> check1.err]
       ELSE IF check2.err # "none"
       THEN [fp |-> fp_seek(f2, check2.pos), err |-> check2.err]
       ELSE [fp |-> fp_write_all(fp_seek(f2, check2.pos), lengths),
             err |-> "none"]

----------------------------------------------------------------------------
(* WsiDicomFile: parsing the pixel data of an opened file *)

NativeByteOrder == "<"      \* byte order of the host that reads the file

Parsed(positions) == [err |-> "none", frame_positions |-> positions]

FileError == [err |-> "WsiDicomFileError", frame_positions |-> <<>>]

\* struct.unpack(mode, bytes) of one table entry; mode is the sequence of
\* the format's characters.  Files are written little-endian, and a format
\* without prefix reads in the host's order.
unpack(mode, e) ==
    LET order == IF mode[1] \in {"<", ">"} THEN mode[1] ELSE NativeByteOrder
        kind == IF mode[Len(mode)] = "L" THEN "ul" ELSE "uq"
    IN IF e.k # kind THEN -1
       ELSE IF order = "<" \/ e.v = 0 THEN e.v
       ELSE e.v * (UQ_MAX + 1)

\* WsiDicomFile._read_bot at a position: the table (none if it is empty),
\* the error raised and the position after it.
_read_bot(data, pos) ==
    LET bot_length == read_UL(data, pos + TAG_BYTES)
        after == pos + TAG_BYTES + LENGHT_BYTES
    IN IF read_tag(data, pos) # "Item"
       THEN [err |-> "WsiDicomFileError", none |-> TRUE, table |-> <<>>,
             pos |-> pos + TAG_BYTES]
       ELSE IF bot_length = 0
       THEN [err |-> "none", none |-> TRUE, table |-> <<>>, pos |-> after]
       ELSE IF bot_length % 4 # 0
       THEN [err |-> "WsiDicomFileError", none |-> TRUE, table |-> <<>>,
             pos |-> after]
       ELSE [err |-> "none", none |-> FALSE,
             table |-> fp_read(data, after, bot_length),
             pos |-> after + bot_length]

\* WsiDicomFile._read_eot at the position after the table's tag.
_read_eot(data, pos) ==
    LET eot_length == _read_tag_length(data, pos, TRUE)
        eot == fp_read(data, eot_length.pos, eot_length.v)
        tag_pos == eot_length.pos + eot_length.v
        length == _read_tag_length(data, tag_pos + TAG_BYTES, TRUE)
    IN IF eot_length.v = 0 \/ eot_length.v % 8 # 0
       THEN [err |-> "WsiDicomFileError", table |-> <<>>,
             pos |-> eot_length.pos]
       ELSE IF read_tag(data, tag_pos) # "ExtendedOffsetTableLengths"
       THEN [err |-> "WsiDicomFileError", table |-> <<>>,
             pos |-> tag_pos + TAG_BYTES]
       ELSE [err |-> "none", table |-> eot, pos |-> length.pos + length.v]

InvalidLength(length) == length = 0 \/ length % 2 # 0

\* Variant of the frame length of _parse_table that keeps the item header.
TableFrameLength_with_header(this_offset, next_offset) ==
    next_offset - this_offset

\* WsiDicomFile._parse_table: the length of a frame that is not the last.
TableFrameLength(this_offset, next_offset) ==
    next_offset - (this_offset + TAG_BYTES + LENGHT_BYTES)

\* WsiDicomFile._parse_table
_parse_table(data, is_little_endian, table, table_type, pixels_start) ==
    LET mode == IF table_type = "bot"
                THEN <<IF is_little_endian THEN "<" ELSE ">", "L">>
                ELSE <<"Q">>
        n == Len(table)
        offset(i) == unpack(mode, table[i])
        length(i) == TableFrameLength(offset(i), offset(i + 1))
        last_length == read_UL(data, pixels_start + offset(n) + TAG_BYTES)
    IN IF \E i \in 1..(n - 1) : InvalidLength(length(i))
       THEN FileError
       ELSE IF read_tag(data, pixels_start + offset(n)) # "Item"
       THEN FileError
       ELSE IF InvalidLength(last_length)
       THEN FileError
       ELSE Parsed([i \in 1..n |->
                <<pixels_start + offset(i) + TAG_BYTES + LENGHT_BYTES,
                  IF i < n THEN length(i) ELSE last_length>>])

\* Variant of _read_sequence_delimiter that accepts any tag.
_read_sequence_delimiter_any(data, tag_pos) == TRUE

\* WsiDicomFile._read_sequence_delimiter for the tag read last.
_read_sequence_delimiter(data, tag_pos) ==
    read_tag(data, tag_pos) = "SequenceDelimiter"

\* WsiDicomFile._read_positions_from_pixeldata from a position on.
RECURSIVE _read_positions_from_pixeldata(_, _, _)
_read_positions_from_pixeldata(data, frame_position, positions) ==
    LET length == read_UL(data, frame_position + TAG_BYTES) IN
    IF read_tag(data, frame_position) = "Item"
    THEN IF InvalidLength(length) THEN FileError
         ELSE _read_positions_from_pixeldata(data,
                 frame_position + TAG_BYTES + LENGHT_BYTES + length,
                 Append(positions,
                        <<frame_position + TAG_BYTES + LENGHT_BYTES, length>>))
    ELSE IF _read_sequence_delimiter(data, frame_position)
    THEN Parsed(positions)
    ELSE FileError

\* Variant of the check for two tables that rejects any table.
BothPresent_any_table(bot_none, is_eot) == ~bot_none \/ is_eot

\* WsiDicomFile._parse_pixel_data: a BOT that is not empty after an EOT.
BothPresent(bot_none, is_eot) == ~bot_none /\ is_eot

\* Variant of the check of the frame count that accepts any count.
FrameCountMismatch_never(frame_count, frame_positions) == FALSE

\* WsiDicomFile._parse_pixel_data: the check of the declared frame count.
FrameCountMismatch(frame_count, frame_positions) ==
    frame_count # Len(frame_positions)

\* WsiDicomFile._parse_pixel_data with the file positioned at pos.  The tag
\* found where PixelData is expected is compared but no error is raised on a
\* mismatch, so it does not decide the result.
_parse_pixel_data(data, pos, frame_count, is_little_endian) ==
    LET pixel_data_or_eot_tag == read_tag(data, pos)
        is_eot == pixel_data_or_eot_tag = "ExtendedOffsetTable"
        eot == _read_eot(data, pos + TAG_BYTES)
        tag_pos == IF is_eot THEN eot.pos ELSE pos
        length == _read_tag_length(data, tag_pos + TAG_BYTES, TRUE)
        bot == _read_bot(data, length.pos)
        has_table == is_eot \/ ~bot.none
        positions ==
            IF has_table
            THEN _parse_table(data, is_little_endian,
                              IF bot.none THEN eot.table ELSE bot.table,
                              IF is_eot THEN "eot" ELSE "bot", bot.pos)
            ELSE _read_positions_from_pixeldata(data, bot.pos, <<>>)
    IN IF is_eot /\ eot.err # "none" THEN FileError
       ELSE IF length.v # UL_MAX THEN FileError
       ELSE IF bot.err # "none" THEN FileError
       ELSE IF BothPresent(bot.none, is_eot) THEN FileError
       ELSE IF positions.err # "none" THEN FileError
       ELSE IF FrameCountMismatch(frame_count, positions.frame_positions)
       THEN FileError
       ELSE positions

\* Variant of the frame read that always takes the first frame's position.
ReadFrameBytes_first_frame(data, frame_positions, frame_index, frame_offset) ==
    fp_read(data, frame_positions[1][1], frame_positions[1][2])

\* WsiDicomFile.get_filepointer and the seek and read of read_frame.
ReadFrameBytes(data, frame_positions, frame_index, frame_offset) ==
    LET frame_position == frame_positions[frame_index - frame_offset + 1][1]
        frame_length == frame_positions[frame_index - frame_offset + 1][2]
    IN fp_read(data, frame_position, frame_length)

----------------------------------------------------------------------------
(* Writing a file, opening it and reading its frames *)

MaxWriterPlanes == 2

WriterPlaneLists ==
    {[i \in 1..n |-> <<"0", i - 1>>] : n \in 1..MaxWriterPlanes}

MinimumChunkSizes == {1, 2}

TileKeys(tiled_size, planes) ==
    {<<p, x, y>> : p \in DOMAIN planes, x \in 0..(tiled_size.width - 1),
                   y \in 0..(tiled_size.height - 1)}

\* The tile sources a file is written from: an ImageData per (path, z)
\* with the same tiling, and the encoded length of each of their tiles.
\* The lengths of the source's own tiles vary for writes at scale 1, the
\* length of the re-encoded tiles for writes at a larger scale.
Sources(scale) ==
    UNION {{[tiled_size |-> ts, planes |-> pl, lens |-> l,
             minimum_chunk_size |-> m, scaled_len |-> sl] :
               l \in IF scale = 1 THEN [TileKeys(ts, pl) -> TileLens]
                     ELSE {[k \in TileKeys(ts, pl) |-> 2]},
               m \in MinimumChunkSizes,
               sl \in IF scale = 1 THEN {4} ELSE ScaledTileLens} :
           ts \in WriterTiledSizes, pl \in WriterPlaneLists}

Header(number_of_frames) == Elem("header", number_of_frames, HeaderLen)

NoFrame == [frame_index |-> -1, frame |-> <<>>]

ClosedReader ==
    [pc |-> "closed", frame_count |-> 0, frame_offset |-> 0,
     frame_positions |-> <<>>, err |-> "none"]

NewWriter(source, offset_table, scale, chunk_size) ==
    [pc |-> "new", offset_table |-> offset_table,
     scale |-> scale, chunk_size |-> chunk_size, source |-> source,
     number_of_frames |-> as_tiled_full_NumberOfFrames(source, scale),
     table_start |-> -1, pixels_start |-> -1,
     frame_positions |-> <<>>, pixels_end |-> -1,
     plane |-> 1, err |-> "none"]

NewFile == [data |-> <<>>, pos |-> 0]

\* A WsiDicomFileWriter on a new file and the arguments of its write.
Init ==
    /\ IdleIndex
    /\ IdleRest
    /\ fp = NewFile
    /\ \E scale \in Scales, offset_table \in OffsetTables,
          chunk_size \in ChunkSizes :
          \E source \in Sources(scale) :
              writer = NewWriter(source, offset_table, scale, chunk_size)
    /\ reader = ClosedReader
    /\ frame_read = NoFrame

\* write: preamble, file meta and base dataset, then the start of the
\* pixel data.
write_start(f, w) ==
    LET started == _write_pixel_data_start(
                       fp_write(f, Header(w.number_of_frames)),
                       w.number_of_frames, w.offset_table)
    IN [fp |-> started.fp,
        writer |-> [w EXCEPT !.pc = "pixels",
                             !.table_start = started.table_start,
                             !.pixels_start = started.pixel_data_start]]

\* write: one turn of the loop over the (path, z) planes.
write_plane(f, w) ==
    LET written == _write_pixel_data(f, w.source, w.plane, w.chunk_size,
                                     w.scale)
    IN [fp |-> written.fp,
        writer |-> [w EXCEPT
                      !.frame_positions = @ \o written.frame_positions,
                      !.plane = @ + 1]]

\* write: the end of the pixel data, the offset table and the close.
write_end(f, w) ==
    LET pixels_end == f.pos
        ended == _write_pixel_data_end(f)
        table ==
            IF w.offset_table = "eot"
            THEN _write_eot(ended, w.table_start, w.pixels_start,
                            w.frame_positions, pixels_end)
            ELSE IF w.offset_table = "bot"
            THEN _write_bot(ended, w.table_start, w.pixels_start,
                            w.frame_positions)
            ELSE [fp |-> ended, err |-> "none"]
    IN [fp |-> table.fp,
        writer |-> [w EXCEPT
                      !.pc = IF table.err = "none" THEN "closed"
                             ELSE "failed",
                      !.pixels_end = pixels_end,
                      !.err = table.err]]

\* WsiDicomFileWriter.write from start to end.
RECURSIVE write(_, _)
write(f, w) ==
    IF w.pc = "new" THEN LET r == write_start(f, w) IN write(r.fp, r.writer)
    ELSE IF w.pc = "pixels" /\ w.plane <= Len(w.source.planes)
    THEN LET r == write_plane(f, w) IN write(r.fp, r.writer)
    ELSE IF w.pc = "pixels"
    THEN write_end(f, w)
    ELSE [fp |-> f, writer |-> w]

WriteStart ==
    /\ writer.pc = "new"
    /\ fp' = write_start(fp, writer).fp
    /\ writer' = write_start(fp, writer).writer
    /\ UNCHANGED <<idxVars, restVars, reader, frame_read>>

WritePlane ==
    /\ writer.pc = "pixels"
    /\ writer.plane <= Len(writer.source.planes)
    /\ fp' = write_plane(fp, writer).fp
    /\ writer' = write_plane(fp, writer).writer
    /\ UNCHANGED <<idxVars, restVars, reader, frame_read>>

WriteEnd ==
    /\ writer.pc = "pixels"
    /\ writer.plane > Len(writer.source.planes)
    /\ fp' = write_end(fp, writer).fp
    /\ writer' = write_end(fp, writer).writer
    /\ UNCHANGED <<idxVars, restVars, reader, frame_read>>

\* WsiDicomFile.__init__ on a file: the dataset's frame count, then the
\* parse of the pixel data.
WsiDicomFile(data) ==
    LET frame_count == data[1].v
        parsed == _parse_pixel_data(data, HeaderLen, frame_count, TRUE)
    IN [pc |-> IF parsed.err = "none" THEN "open" ELSE "failed",
        frame_count |-> frame_count, frame_offset |-> 0,
        frame_positions |-> parsed.frame_positions,
        err |-> parsed.err]

Open ==
    /\ writer.pc = "closed"
    /\ reader.pc = "closed"
    /\ reader' = WsiDicomFile(fp.data)
    /\ UNCHANGED <<idxVars, restVars, fp, writer, frame_read>>

\* WsiDicomFile.read_frame
read_frame(frame_index) ==
    /\ reader.pc = "open"
    /\ frame_read' = [frame_index |-> frame_index,
                      frame |-> ReadFrameBytes(fp.data, reader.frame_positions,
                                    frame_index, reader.frame_offset)]
    /\ UNCHANGED <<idxVars, restVars, fp, writer, reader>>

Next ==
    \/ WriteStart
    \/ WritePlane
    \/ WriteEnd
    \/ Open
    \/ \E frame_index \in 0..(reader.frame_count - 1) : read_frame(frame_index)

Spec == Init /\ [][Next]_vars

----------------------------------------------------------------------------
(* Properties of the written file *)

\* The encoded tiles the tile source supplies, in write order: plane by
\* plane and row-major within a plane.
SuppliedTiles(w) ==
    LET size == Size_truediv_int(w.source.tiled_size, w.scale)
        count == Size_area(size)
        tile(p, i) ==
            LET x == (i - 1) % size.width
                y == (i - 1) \div size.width
            IN [id |-> <<p, x, y, w.scale>>,
                n |-> IF w.scale = 1 THEN w.source.lens[<<p, x, y>>]
                      ELSE w.source.scaled_len]
    IN [k \in 1..(count * Len(w.source.planes)) |->
          tile(((k - 1) \div count) + 1, ((k - 1) % count) + 1)]

TileBytes(tile) == <<Elem("data", tile.id, tile.n)>>

PaddedTileBytes(tile) ==
    TileBytes(tile) \o (IF tile.n % 2 = 1 THEN <<Elem("pad", 0, 1)>> ELSE <<>>)

FileOpened == writer.pc = "closed" /\ reader.pc # "closed"

Scale1Opens ==
    (FileOpened /\ writer.scale = 1) =>
        /\ reader.pc = "open"
        /\ Len(reader.frame_positions) = Len(SuppliedTiles(writer))

FrameWasRead ==
    /\ reader.pc = "open"
    /\ writer.scale = 1
    /\ frame_read.frame_index >= 0

\* C2 as stated: after write at scale 1 and open, read_frame(k) returns
\* bytes identical to the k-th encoded tile supplied by the tile source.
C2_RoundTripIdentical ==
    /\ Scale1Opens
    /\ FrameWasRead =>
         frame_read.frame =
             TileBytes(SuppliedTiles(writer)[frame_read.frame_index + 1])

\* C2 (amended): after write at scale 1 and open, every frame can be read
\* and read_frame(k) returns the k-th encoded tile supplied by the tile
\* source, followed by one pad byte when the tile's length is odd.
C2_RoundTripPadded ==
    /\ Scale1Opens
    /\ FrameWasRead =>
         frame_read.frame =
             PaddedTileBytes(SuppliedTiles(writer)[frame_read.frame_index + 1])

C2_Witness ==
    /\ FrameWasRead
    /\ frame_read.frame_index >= 1
    /\ SuppliedTiles(writer)[frame_read.frame_index + 1].n % 2 = 1
    /\ Len(frame_read.frame) = 2

\* The file written from the same source with another offset table, opened.
OpenedWith(offset_table) ==
    LET written == write(NewFile, NewWriter(writer.source, offset_table,
                                            writer.scale, writer.chunk_size))
    IN IF written.writer.pc = "closed"
       THEN WsiDicomFile(written.fp.data)
       ELSE ClosedReader

RelativeToFirst(positions) ==
    [i \in DOMAIN positions |->
       <<positions[i][1] - positions[1][1], positions[i][2]>>]

\* C3 as stated: the same frame items yield the same list of (byte
\* position, byte length) pairs with a basic table, an extended table or
\* no table.
C3_SamePositions ==
    reader.pc = "open" =>
        \A t \in OffsetTables :
            OpenedWith(t).pc = "open" =>
                OpenedWith(t).frame_positions = reader.frame_positions

\* C3 (amended): the same frame items yield the same byte lengths and the
\* same byte positions relative to the first frame with a basic table, an
\* extended table or no table; whenever one parse succeeds the others do,
\* unless the file could not be written with that table.
C3_SameRelativePositions ==
    reader.pc = "open" =>
        \A t \in OffsetTables :
            LET other == OpenedWith(t) IN
            /\ other.pc # "failed"
            /\ other.pc = "open" =>
                 RelativeToFirst(other.frame_positions)
                     = RelativeToFirst(reader.frame_positions)

C3_Witness ==
    /\ reader.pc = "open"
    /\ Len(reader.frame_positions) >= 2
    /\ writer.offset_table = "none"
    /\ OpenedWith("bot").pc = "open"
    /\ OpenedWith("eot").pc = "open"

\* The offset of each frame from the start of the frame stream: the sizes
\* of the items before it.
RECURSIVE RelativeOffset(_, _)
RelativeOffset(tiles, k) ==
    IF k = 1 THEN 0
    ELSE RelativeOffset(tiles, k - 1) + TAG_BYTES + LENGHT_BYTES
         + tiles[k - 1].n + (tiles[k - 1].n % 2)

OffsetExceedsUL(w) ==
    \E k \in DOMAIN SuppliedTiles(w) :
        RelativeOffset(SuppliedTiles(w), k) > UL_MAX

WriteDone == writer.pc \in {"closed", "failed"}

DeclaresWrittenFrames(w) == w.number_of_frames = Len(SuppliedTiles(w))

WrittenWith(offset_table) ==
    write(NewFile, NewWriter(writer.source, offset_table, writer.scale,
                             writer.chunk_size)).writer

\* C10: write with the basic offset table fails exactly when the offset of
\* some frame from the start of the frame stream exceeds the range of an
\* unsigned long, and write of the same frames with the extended offset
\* table then succeeds.
C10_BotRange ==
    (WriteDone /\ writer.offset_table = "bot"
     /\ DeclaresWrittenFrames(writer)) =>
        /\ (OffsetExceedsUL(writer) <=>
               (writer.pc = "failed" /\ writer.err = "NotImplementedError"))
        /\ OffsetExceedsUL(writer) => WrittenWith("eot").pc = "closed"

C10_Witness ==
    /\ writer.offset_table = "bot"
    /\ writer.pc = "failed"
    /\ writer.err = "NotImplementedError"
    /\ DeclaresWrittenFrames(writer)
    /\ WrittenWith("eot").pc = "closed"

----------------------------------------------------------------------------
(* _write_pixel_data: the thread pool.  pool.map submits one task per       *)
(* chunk, the workers take the tasks from the queue in submission order,    *)
(* at most max_workers at a time, and finish in any order; the writing      *)
(* thread takes the results from the iterator pool.map returned.            *)

MaxWorkers == 2

PoolTiledSizes == {Size(2, 2), Size(3, 1)}

PoolSource(tiled_size) ==
    [tiled_size |-> tiled_size, planes |-> <<<<"0", 0>>>>,
     lens |-> [k \in TileKeys(tiled_size, <<<<"0", 0>>>>) |-> 2],
     minimum_chunk_size |-> 1, scaled_len |-> 4]

InitPool ==
    /\ IdleIndex
    /\ fp = NewFile
    /\ writer = None
    /\ reader = None
    /\ frame_read = None
    /\ calls = None
    /\ stitch = None
    /\ opening = None
    /\ \E tiled_size \in PoolTiledSizes, chunk_size \in ChunkSizes,
          workers \in 1..MaxWorkers :
          LET source == PoolSource(tiled_size)
              chunks == _chunk_tile_points(tiled_size,
                            source.minimum_chunk_size, chunk_size, 1)
          IN pool = [pc |-> "map", source |-> source, scale |-> 1,
                     max_workers |-> workers, chunks |-> chunks,
                     status |-> [i \in DOMAIN chunks |-> "new"],
                     results |-> [i \in DOMAIN chunks |-> <<>>],
                     done_order |-> <<>>, drained |-> <<>>,
                     frame_positions |-> <<>>]

Tasks(status) == {i \in DOMAIN pool.chunks : pool.status[i] = status}

\* pool.map: the next chunk of the generator is submitted; the call returns
\* its result iterator after the last one.
Submit ==
    /\ pool.pc = "map"
    /\ LET i == CHOOSE i \in Tasks("new") : \A j \in Tasks("new") : i <= j
       IN pool' = [pool EXCEPT !.status[i] = "queued",
                               !.pc = IF Tasks("new") = {i} THEN "drain"
                                      ELSE "map"]
    /\ UNCHANGED <<idxVars, fileVars, calls, stitch, opening>>

\* A worker thread takes the oldest task of the queue.
WorkerStart(i) ==
    /\ pool.status[i] = "queued"
    /\ \A j \in Tasks("queued") : i <= j
    /\ Cardinality(Tasks("running")) < pool.max_workers
    /\ pool' = [pool EXCEPT !.status[i] = "running"]
    /\ UNCHANGED <<idxVars, fileVars, calls, stitch, opening>>

\* A worker thread finishes get_tiles for its chunk.
WorkerFinish(i) ==
    /\ pool.status[i] = "running"
    /\ pool' = [pool EXCEPT
                  !.status[i] = "done",
                  !.results[i] = get_tiles(pool.source, 1, pool.scale,
                                           pool.chunks[i]),
                  !.done_order = Append(@, i)]
    /\ UNCHANGED <<idxVars, fileVars, calls, stitch, opening>>

\* Variant of the result iterator that yields results as they complete.
NextResult_completion_order(p) ==
    IF Len(p.drained) < Len(p.done_order)
    THEN p.done_order[Len(p.drained) + 1]
    ELSE 0

\* The result iterator of pool.map: the task whose result is yielded next
\* (0 when all have been yielded).
NextResult(p) ==
    IF Len(p.drained) < Len(p.chunks) THEN Len(p.drained) + 1 ELSE 0

\* The writing thread gets the next thread result and writes its tiles.
Drain ==
    /\ pool.pc = "drain"
    /\ NextResult(pool) # 0
    /\ pool.status[NextResult(pool)] = "done"
    /\ LET i == NextResult(pool)
           written == WriteTiles(fp, pool.frame_positions, pool.results[i])
       IN /\ fp' = written.fp
          /\ pool' = [pool EXCEPT !.drained = Append(@, i),
                                  !.frame_positions = written.frame_positions]
    /\ UNCHANGED <<idxVars, writer, reader, frame_read, calls, stitch, opening>>

\* The pool is shut down and _write_pixel_data returns.
PoolReturn ==
    /\ pool.pc = "drain"
    /\ Len(pool.drained) = Len(pool.chunks)
    /\ pool' = [pool EXCEPT !.pc = "returned"]
    /\ UNCHANGED <<idxVars, fileVars, calls, stitch, opening>>

NextPool ==
    \/ Submit
    \/ \E i \in DOMAIN pool.chunks : WorkerStart(i)
    \/ \E i \in DOMAIN pool.chunks : WorkerFinish(i)
    \/ Drain
    \/ PoolReturn

SpecPool == InitPool /\ [][NextPool]_vars

\* The tiles of the frames in a file, in file order.
FramesOnDisk(data) ==
    LET frames == {i \in DOMAIN data : data[i].k = "data"}
        nth(k) == CHOOSE i \in frames :
                     Cardinality({j \in frames : j <= i}) = k
    IN [k \in 1..Cardinality(frames) |-> data[nth(k)].v]

IsPrefix(s, t) == Len(s) <= Len(t) /\ \A i \in DOMAIN s : s[i] = t[i]

RowMajorIds(p) == [k \in DOMAIN SuppliedTiles(p) |-> SuppliedTiles(p)[k].id]

\* C4: whatever order the workers finish their chunks in, the frames in the
\* file are at any time the first frames of the plane in row-major order,
\* and all of them once _write_pixel_data has returned.
C4_SubmissionOrder ==
    /\ IsPrefix(FramesOnDisk(fp.data), RowMajorIds(pool))
    /\ pool.pc = "returned" => FramesOnDisk(fp.data) = RowMajorIds(pool)

C4_Witness ==
    /\ pool.pc = "returned"
    /\ Len(pool.chunks) >= 3
    /\ \E i, j \in DOMAIN pool.done_order :
          i < j /\ pool.done_order[i] > pool.done_order[j]
    /\ FramesOnDisk(fp.data) = RowMajorIds(pool)

----------------------------------------------------------------------------
(* Concurrent read_frame calls on one WsiDicomFile.  The calls share the    *)
(* file pointer, whose position is set by seek and advanced by read, and   *)
(* the lock of the file.                                                   *)

MaxThreads == 2

Threads == 1..MaxThreads

\* The files the calls read: two or four frames of different lengths.
ReadSources ==
    {[tiled_size |-> Size(2, 1), planes |-> pl,
      lens |-> [k \in TileKeys(Size(2, 1), pl) |->
                  IF k[2] = 0 THEN 2 ELSE 4],
      minimum_chunk_size |-> 1, scaled_len |-> 4] :
        pl \in WriterPlaneLists}

IdleCall ==
    [pc |-> "idle", frame_index |-> -1, frame_position |-> -1,
     frame_length |-> -1, frame |-> <<>>]

InitRead ==
    /\ IdleIndex
    /\ pool = None
    /\ stitch = None
    /\ opening = None
    /\ frame_read = None
    /\ \E source \in ReadSources, offset_table \in OffsetTables :
          LET written == write(NewFile,
                               NewWriter(source, offset_table, 1, 1))
          IN /\ writer = written.writer
             /\ fp = [written.fp EXCEPT !.pos = HeaderLen]
             /\ reader = WsiDicomFile(written.fp.data)
    /\ calls = [lock |-> 0, thread |-> [t \in Threads |-> IdleCall]]

\* read_frame: get_filepointer, before the lock is taken.
get_filepointer(t, frame_index) ==
    /\ calls.thread[t].pc \in {"idle", "returned"}
    /\ LET position == reader.frame_positions[
                           frame_index - reader.frame_offset + 1]
       IN calls' = [calls EXCEPT !.thread[t] =
                      [pc |-> "called", frame_index |-> frame_index,
                       frame_position |-> position[1],
                       frame_length |-> position[2], frame |-> <<>>]]
    /\ UNCHANGED <<idxVars, fileVars, pool, stitch, opening>>

\* Variant of the lock that any thread can take at any time.
LockFree_always(lock) == TRUE

\* threading.Lock: it can be acquired when no thread holds it.
LockFree(lock) == lock = 0

\* read_frame: with self._lock (enter).
Acquire(t) ==
    /\ calls.thread[t].pc = "called"
    /\ LockFree(calls.lock)
    /\ calls' = [calls EXCEPT !.lock = t, !.thread[t].pc = "locked"]
    /\ UNCHANGED <<idxVars, fileVars, pool, stitch, opening>>

\* read_frame: fp.seek(frame_position, 0)
Seek(t) ==
    /\ calls.thread[t].pc = "locked"
    /\ fp' = fp_seek(fp, calls.thread[t].frame_position)
    /\ calls' = [calls EXCEPT !.thread[t].pc = "sought"]
    /\ UNCHANGED <<idxVars, writer, reader, frame_read, pool, stitch, opening>>

\* read_frame: fp.read(frame_length), from the position of the file pointer.
Read(t) ==
    /\ calls.thread[t].pc = "sought"
    /\ fp' = fp_seek(fp, fp.pos + calls.thread[t].frame_length)
    /\ calls' = [calls EXCEPT
                   !.thread[t].pc = "read",
                   !.thread[t].frame =
                       fp_read(fp.data, fp.pos, calls.thread[t].frame_length)]
    /\ UNCHANGED <<idxVars, writer, reader, frame_read, pool, stitch, opening>>

\* read_frame: with self._lock (exit) and return frame.
Release(t) ==
    /\ calls.thread[t].pc = "read"
    /\ calls' = [calls EXCEPT
                   !.lock = IF @ = t THEN 0 ELSE @,
                   !.thread[t].pc = "returned"]
    /\ UNCHANGED <<idxVars, fileVars, pool, stitch, opening>>

NextRead ==
    \/ \E t \in Threads, frame_index \in 0..(reader.frame_count - 1) :
          get_filepointer(t, frame_index)
    \/ \E t \in Threads : Acquire(t)
    \/ \E t \in Threads : Seek(t)
    \/ \E t \in Threads : Read(t)
    \/ \E t \in Threads : Release(t)

SpecRead == InitRead /\ [][NextRead]_vars

InCriticalSection(t) == calls.thread[t].pc \in {"locked", "sought", "read"}

\* C5: the seek and read of one read_frame call are never interleaved with
\* those of another call on the same file, and each call returns the bytes
\* of its own frame.
C5_ReadFrameExclusive ==
    /\ \A t, u \in Threads :
          (InCriticalSection(t) /\ InCriticalSection(u)) => t = u
    /\ \A t \in Threads :
          calls.thread[t].pc \in {"read", "returned"} =>
              calls.thread[t].frame =
                  PaddedTileBytes(
                      SuppliedTiles(writer)[calls.thread[t].frame_index + 1])

C5_Witness ==
    /\ calls.thread[1].pc = "read"
    /\ calls.thread[2].pc = "called"
    /\ calls.thread[1].frame_index # calls.thread[2].frame_index
    /\ calls.thread[1].frame =
           PaddedTileBytes(
               SuppliedTiles(writer)[calls.thread[1].frame_index + 1])

----------------------------------------------------------------------------
(* get_tile_range, stitch_tiles and _write_indexer *)

\* Point - int
Point_sub_int(point, n) == Point(point.x - n, point.y - n)

\* Point * Size
Point_mul(point, size) == Point(point.x * size.width, point.y * size.height)

\* Region.from_points
Region_from_points(start, end) ==
    Region(start, Size(end.x - start.x, end.y - start.y))

\* Region.iterate_all(include_end=True): the points row by row, x fastest.
Region_iterate_all(region) ==
    LET start == Region_start(region)
        end == Region_end(region)
        columns == Max(end.x - start.x + 1, 0)
        rows == Max(end.y - start.y + 1, 0)
    IN [i \in 1..(columns * rows) |->
          Point(start.x + ((i - 1) % columns), start.y + ((i - 1) \div columns))]

\* Region.crop(Region): the part of the other region inside this one.
Region_crop(region, item) ==
    LET start == Point(Max(Region_start(region).x, Region_start(item).x),
                       Max(Region_start(region).y, Region_start(item).y))
        end == Point(Min(Region_end(region).x, Region_end(item).x),
                     Min(Region_end(region).y, Region_end(item).y))
    IN Region(start, Size(Max(end.x - start.x, 0), Max(end.y - start.y, 0)))

\* Region.inside_crop: the part of a tile inside this region, relative to
\* the origin of the tile.
Region_inside_crop(region, item, item_size) ==
    LET origin == Point_mul(item, item_size)
        crop == Region_crop(region, Region(origin, item_size))
    IN Region(Point(crop.position.x - origin.x, crop.position.y - origin.y),
              crop.size)

StitchTileSize == Size(1024, 1024)

\* The image data the regions are taken from: 3 x 2 tiles, one plane.
StitchData ==
    [tile_size |-> StitchTileSize,
     tiles |-> [tiled_size |-> Size(3, 2), focal_planes |-> <<0>>,
                optical_paths |-> <<"0">>]]

PixelRegions ==
    {Region(Point(x, y), Size(w, h)) :
        x \in {0, 300, 512, 1024}, y \in {0, 400, 512, 1024},
        w \in {0, 500, 1024, 2048}, h \in {0, 500, 1024, 2048}}

\* ImageData.get_tile_range
get_tile_range(data, pixel_region, z, path) ==
    LET start == Point_floordiv(Region_start(pixel_region), data.tile_size)
        end == Point_sub_int(
                   Point_truediv(Region_end(pixel_region), data.tile_size), 1)
        tile_region == Region_from_points(start, end)
    IN IF ~valid_tiles(data, tile_region, z, path)
       THEN [err |-> "WsiDicomOutOfBoundsError", region |-> tile_region]
       ELSE [err |-> "none", region |-> tile_region]

\* Variant of _write_indexer that wraps only after passing the width.
_write_indexer_wrap_after(index, previous_size, image_size) ==
    IF index.x + previous_size.width > image_size.width
    THEN Point(0, index.y + previous_size.height)
    ELSE Point(index.x + previous_size.width, index.y)

\* ImageData._write_indexer
_write_indexer(index, previous_size, image_size) ==
    IF index.x + previous_size.width >= image_size.width
    THEN Point(0, index.y + previous_size.height)
    ELSE Point(index.x + previous_size.width, index.y)

\* ImageData.get_tile(tile, z, path, crop): the size of the returned image.
get_tile_size(data, tile, crop) ==
    Region_inside_crop(crop, tile, data.tile_size).size

IdleStitch ==
    [pc |-> "idle", region |-> None, tile_range |-> None, tiles |-> <<>>,
     next |-> 0, write_index |-> Point(0, 0), pasted |-> <<>>]

InitStitch ==
    /\ IdleIndex
    /\ IdleFile
    /\ pool = None
    /\ calls = None
    /\ opening = None
    /\ stitch = IdleStitch

\* A call of get_tile_range on its own.
GetTileRange(region) ==
    /\ stitch.pc = "idle"
    /\ LET range == get_tile_range(StitchData, region, 0, "0")
       IN stitch' = [stitch EXCEPT
                        !.pc = IF range.err = "none" THEN "range" ELSE "error",
                        !.region = region, !.tile_range = range.region]
    /\ UNCHANGED <<idxVars, fileVars, pool, calls, opening>>

\* stitch_tiles up to the loop.
StitchStart(region) ==
    /\ stitch.pc = "idle"
    /\ LET range == get_tile_range(StitchData, region, 0, "0")
       IN stitch' = [stitch EXCEPT
                        !.pc = IF range.err = "none" THEN "stitching"
                               ELSE "error",
                        !.region = region, !.tile_range = range.region,
                        !.tiles = IF range.err = "none"
                                  THEN Region_iterate_all(range.region)
                                  ELSE <<>>,
                        !.next = 1, !.write_index = Point(0, 0)]
    /\ UNCHANGED <<idxVars, fileVars, pool, calls, opening>>

\* stitch_tiles: one turn of the loop.
StitchPaste ==
    /\ stitch.pc = "stitching"
    /\ stitch.next <= Len(stitch.tiles)
    /\ LET tile == stitch.tiles[stitch.next]
           size == get_tile_size(StitchData, tile, stitch.region)
       IN stitch' = [stitch EXCEPT
                        !.pasted = Append(@, [tile |-> tile, size |-> size,
                                              at |-> stitch.write_index]),
                        !.write_index = _write_indexer(stitch.write_index,
                                            size, stitch.region.size),
                        !.next = @ + 1]
    /\ UNCHANGED <<idxVars, fileVars, pool, calls, opening>>

\* stitch_tiles: return image.
StitchReturn ==
    /\ stitch.pc = "stitching"
    /\ stitch.next > Len(stitch.tiles)
    /\ stitch' = [stitch EXCEPT !.pc = "done"]
    /\ UNCHANGED <<idxVars, fileVars, pool, calls, opening>>

NextStitch ==
    \/ \E region \in PixelRegions : GetTileRange(region)
    \/ \E region \in PixelRegions : StitchStart(region)
    \/ StitchPaste
    \/ StitchReturn

SpecStitch == InitStitch /\ [][NextStitch]_vars

----------------------------------------------------------------------------
(* Properties of get_tile_range and stitch_tiles *)

\* The tile that contains a pixel.
TileOf(point) ==
    Point(point.x \div StitchTileSize.width, point.y \div StitchTileSize.height)

LastPixel(region) == Point(Region_end(region).x - 1, Region_end(region).y - 1)

RangeReturned == stitch.pc = "range"

PositiveArea(region) == region.size.width > 0 /\ region.size.height > 0

ZeroArea(region) == Size_area(region.size) = 0

SingleTileRange(tile) == Region(tile, Size(0, 0))

\* The range runs from the tile of the first pixel to the tile of the last.
RangeFromStartToEnd ==
    (RangeReturned /\ PositiveArea(stitch.region)) =>
        /\ Region_start(stitch.tile_range) = TileOf(Region_start(stitch.region))
        /\ Region_end(stitch.tile_range) = TileOf(LastPixel(stitch.region))

\* A region inside one tile gives that tile; a region over two adjacent
\* tiles gives a range of two tiles.
RangeOfOneOrTwoTiles ==
    (RangeReturned /\ PositiveArea(stitch.region)) =>
        LET first == TileOf(Region_start(stitch.region))
            last == TileOf(LastPixel(stitch.region))
        IN /\ first = last => stitch.tile_range = SingleTileRange(first)
           /\ (last.x = first.x + 1 /\ last.y = first.y) =>
                 stitch.tile_range = Region(first, Size(1, 0))
           /\ (last.x = first.x /\ last.y = first.y + 1) =>
                 stitch.tile_range = Region(first, Size(0, 1))

\* A region of zero area gives the single tile that contains its origin.
RangeOfZeroArea ==
    (stitch.pc \in {"range", "error"} /\ ZeroArea(stitch.region)) =>
        /\ stitch.pc = "range"
        /\ stitch.tile_range =
               SingleTileRange(TileOf(Region_start(stitch.region)))

\* C8: get_tile_range returns the inclusive tile range from the tile of the
\* region start to the tile of the region end minus one: one tile for a
\* region inside a tile, two tiles for a region over two tiles, and the
\* single tile of the origin for a region of zero area.
C8_TileRange ==
    /\ RangeFromStartToEnd
    /\ RangeOfOneOrTwoTiles
    /\ RangeOfZeroArea

\* C8, the part that holds: the ranges of regions of positive area.
C8_PositiveAreaRange ==
    /\ RangeFromStartToEnd
    /\ RangeOfOneOrTwoTiles

C8_PositiveAreaWitness ==
    /\ RangeReturned
    /\ stitch.region = Region(Point(512, 400), Size(1024, 500))
    /\ stitch.tile_range = Region(Point(0, 0), Size(1, 0))

\* The range returned for the empty region at the origin of the image.
C8_ZeroAreaAtOrigin ==
    /\ RangeReturned
    /\ stitch.region = Region(Point(0, 0), Size(0, 0))
    /\ stitch.tile_range = Region(Point(0, 0), Size(-1, -1))

Cursors == [i \in DOMAIN stitch.pasted |-> stitch.pasted[i].at]

Stitching == stitch.pc \in {"stitching", "done"}

CursorTrace(region, trace) ==
    (Stitching /\ stitch.region = region) =>
        /\ IsPrefix(Cursors, trace)
        /\ stitch.pc = "done" => Cursors = trace

\* Each tile is pasted where its part of the region lies in the image.
PastedInPlace ==
    (Stitching /\ PositiveArea(stitch.region)) =>
        \A i \in DOMAIN stitch.pasted :
            LET origin == Point_mul(stitch.pasted[i].tile, StitchTileSize)
                start == Region_start(stitch.region)
            IN stitch.pasted[i].at =
                   Point(Max(origin.x, start.x) - start.x,
                         Max(origin.y, start.y) - start.y)

\* C9: the write cursor advances by the width of the tile pasted last and
\* wraps to the next row, advancing by that tile's height, when it reaches
\* the width of the region: a 2048x2048 region of 1024x1024 tiles visits
\* (0,0), (1024,0), (0,1024), (1024,1024), and a 1024x1024 region at
\* (512,512) visits (0,0), (512,0), (0,512), (512,512).
C9_WriteCursor ==
    /\ CursorTrace(Region(Point(0, 0), Size(2048, 2048)),
                   <<Point(0, 0), Point(1024, 0),
                     Point(0, 1024), Point(1024, 1024)>>)
    /\ CursorTrace(Region(Point(512, 512), Size(1024, 1024)),
                   <<Point(0, 0), Point(512, 0),
                     Point(0, 512), Point(512, 512)>>)
    /\ PastedInPlace

C9_Witness ==
    /\ stitch.pc = "done"
    /\ stitch.region = Region(Point(512, 512), Size(1024, 1024))
    /\ Cursors = <<Point(0, 0), Point(512, 0), Point(0, 512), Point(512, 512)>>

----------------------------------------------------------------------------
(* WsiInstance.open: filter_files, group_files, the construction of the     *)
(* instances and the checks for duplicates.  A file is referred to by its   *)
(* index in the list handed to open.                                        *)

MaxFiles == 2

NoUid == "none"     \* a concatenation uid that is not defined

\* The datasets of the files handed to open.
OpenDatasets ==
    [instance_uid : {"i1", "i2"}, concatenation_uid : {NoUid, "c1"},
     base_uids : {"s1", "s2"}, tile_size : {Size(2, 2), Size(4, 4)}]

OpenFileLists == UNION {[1..n -> OpenDatasets] : n \in 1..MaxFiles}

\* Variant of matches_series that does not look at the tile size.
matches_series_uids_only(dataset, uids, tile_size) ==
    uids = dataset.base_uids

\* WsiDataset.matches_series
matches_series(dataset, uids, tile_size) ==
    IF tile_size # None /\ tile_size # dataset.tile_size THEN FALSE
    ELSE uids = dataset.base_uids

\* WsiDicomFile.filter_files: the valid files, the files warned about and
\* the files closed, each in the order of the loop.
RECURSIVE filter_files(_, _, _, _, _)
filter_files(files, i, series_uids, series_tile_size, result) ==
    IF i > Len(files) THEN result
    ELSE filter_files(files, i + 1, series_uids, series_tile_size,
            IF matches_series(files[i], series_uids, series_tile_size)
            THEN [result EXCEPT !.valid_files = Append(@, i)]
            ELSE [result EXCEPT !.warnings = Append(@, i),
                                !.closed = Append(@, i)])

\* FileUids.identifier: the concatenation uid if defined, else the instance
\* uid.
FileUids_identifier(dataset) ==
    IF dataset.concatenation_uid # NoUid THEN dataset.concatenation_uid
    ELSE dataset.instance_uid

\* WsiDicomFile.group_files: the groups in the order of their first file.
RECURSIVE group_files(_, _, _)
group_files(files, valid_files, groups) ==
    IF valid_files = <<>> THEN groups
    ELSE LET file == Head(valid_files)
             identifier == FileUids_identifier(files[file])
             known == {g \in DOMAIN groups : groups[g].identifier = identifier}
         IN group_files(files, Tail(valid_files),
                IF known = {}
                THEN Append(groups, [identifier |-> identifier,
                                     files |-> <<file>>])
                ELSE [g \in DOMAIN groups |->
                        IF g \in known
                        THEN [groups[g] EXCEPT !.files = Append(@, file)]
                        ELSE groups[g]])

\* Variant of check_duplicate_dataset that never raises.
check_duplicate_dataset_never(datasets) == "none"

\* WsiDataset.check_duplicate_dataset: the error raised.
check_duplicate_dataset(datasets) ==
    IF \E i \in DOMAIN datasets :
          datasets[i].instance_uid \in
              {datasets[j].instance_uid : j \in 1..(i - 1)}
    THEN "WsiDicomUidDuplicateError"
    ELSE "none"

\* FileUids.__eq__: files of one concatenation, or one and the same file.
FileUids_eq(a, b) ==
    /\ a.base_uids = b.base_uids
    /\ IF a.concatenation_uid # NoUid /\ b.concatenation_uid # NoUid
       THEN a.concatenation_uid = b.concatenation_uid
       ELSE a.instance_uid = b.instance_uid

\* WsiDataset.matches_instance (the files have one image size and tile type)
matches_instance(dataset, other_dataset) ==
    /\ FileUids_eq(dataset, other_dataset)
    /\ dataset.tile_size = other_dataset.tile_size

\* WsiInstance._validate_instance: the error raised and the identifier.
_validate_instance(datasets) ==
    [err |-> IF check_duplicate_dataset(datasets) # "none"
             THEN check_duplicate_dataset(datasets)
             ELSE IF \E i \in 2..Len(datasets) :
                        ~matches_instance(datasets[1], datasets[i])
             THEN "WsiDicomError"
             ELSE "none",
     identifier |-> FileUids_identifier(datasets[1])]

\* WsiInstance.check_duplicate_instance: the error raised.
check_duplicate_instance(instances) ==
    IF \E i \in DOMAIN instances :
          instances[i].identifier \in
              {instances[j].identifier : j \in 1..(i - 1)}
    THEN "WsiDicomUidDuplicateError"
    ELSE "none"

\* WsiInstance.__init__ on the files of one group.
WsiInstance(files, group) ==
    LET datasets == [i \in DOMAIN group.files |-> files[group.files[i]]]
        validated == _validate_instance(datasets)
    IN [err |-> validated.err,
        instance |-> [identifier |-> validated.identifier,
                      files |-> group.files]]

OpenCalled(files, series_tile_size) ==
    [pc |-> "called", files |-> files, series_uids |-> "s1",
     series_tile_size |-> series_tile_size, valid_files |-> <<>>,
     warnings |-> <<>>, closed |-> <<>>, groups |-> <<>>,
     instances |-> <<>>, err |-> "none", checked |-> <<>>,
     check_err |-> "none"]

InitOpen ==
    /\ IdleIndex
    /\ IdleFile
    /\ pool = None
    /\ calls = None
    /\ stitch = None
    /\ \E files \in OpenFileLists, series_tile_size \in {None, Size(2, 2)} :
          opening = OpenCalled(files, series_tile_size)

\* WsiInstance.open: filtered_files = WsiDicomFile.filter_files(...)
FilterFiles ==
    /\ opening.pc = "called"
    /\ LET result == filter_files(opening.files, 1, opening.series_uids,
                                  opening.series_tile_size,
                                  [valid_files |-> <<>>, warnings |-> <<>>,
                                   closed |-> <<>>])
       IN opening' = [opening EXCEPT !.pc = "filtered",
                                     !.valid_files = result.valid_files,
                                     !.warnings = result.warnings,
                                     !.closed = result.closed]
    /\ UNCHANGED <<idxVars, fileVars, pool, calls, stitch>>

\* WsiInstance.open: files_grouped_by_instance = group_files(filtered_files)
GroupFiles ==
    /\ opening.pc = "filtered"
    /\ opening' = [opening EXCEPT
                     !.pc = "grouped",
                     !.groups = group_files(opening.files,
                                            opening.valid_files, <<>>)]
    /\ UNCHANGED <<idxVars, fileVars, pool, calls, stitch>>

\* WsiInstance.open: the next instance of the list comprehension; an error
\* of the constructor ends open.
ConstructInstance ==
    /\ opening.pc = "grouped"
    /\ Len(opening.instances) < Len(opening.groups)
    /\ LET made == WsiInstance(opening.files,
                               opening.groups[Len(opening.instances) + 1])
       IN opening' = IF made.err # "none"
                     THEN [opening EXCEPT !.pc = "failed", !.err = made.err]
                     ELSE [opening EXCEPT
                             !.instances = Append(@, made.instance)]
    /\ UNCHANGED <<idxVars, fileVars, pool, calls, stitch>>

\* WsiInstance.open returns the instances.
OpenReturn ==
    /\ opening.pc = "grouped"
    /\ Len(opening.instances) = Len(opening.groups)
    /\ opening' = [opening EXCEPT !.pc = "opened"]
    /\ UNCHANGED <<idxVars, fileVars, pool, calls, stitch>>

\* WsiInstance.check_duplicate_instance on a list of opened instances.
CheckDuplicateInstance ==
    /\ opening.pc = "opened"
    /\ \E n \in 1..2 : \E picked \in [1..n -> DOMAIN opening.instances] :
          LET instances == [i \in 1..n |-> opening.instances[picked[i]]]
          IN opening' = [opening EXCEPT
                           !.pc = "checked",
                           !.checked = instances,
                           !.check_err = check_duplicate_instance(instances)]
    /\ UNCHANGED <<idxVars, fileVars, pool, calls, stitch>>

NextOpen ==
    \/ FilterFiles
    \/ GroupFiles
    \/ ConstructInstance
    \/ OpenReturn
    \/ CheckDuplicateInstance

SpecOpen == InitOpen /\ [][NextOpen]_vars

\* Two of the datasets have one SOP instance uid.
ShareInstanceUid(datasets) ==
    \E i, j \in DOMAIN datasets :
        i # j /\ datasets[i].instance_uid = datasets[j].instance_uid

\* Two of the instances have one identifier.
ShareIdentifier(instances) ==
    \E i, j \in DOMAIN instances :
        i # j /\ instances[i].identifier = instances[j].identifier

DatasetsOf(file_indices) ==
    [i \in DOMAIN file_indices |-> opening.files[file_indices[i]]]

\* The group whose construction failed.
FailedGroup == opening.groups[Len(opening.instances) + 1]

\* C11: the construction of an instance raises WsiDicomUidDuplicateError
\* exactly when two of its datasets share a SOP instance uid,
\* check_duplicate_instance raises it exactly when two of the instances
\* share an identifier, and no constructed instance holds two files of one
\* instance uid.
C11_DuplicatesRaise ==
    /\ opening # None
    => /\ opening.pc = "failed" =>
             ((opening.err = "WsiDicomUidDuplicateError")
                <=> ShareInstanceUid(DatasetsOf(FailedGroup.files)))
       /\ \A i \in DOMAIN opening.instances :
             ~ShareInstanceUid(DatasetsOf(opening.instances[i].files))
       /\ opening.pc = "checked" =>
             ((opening.check_err = "WsiDicomUidDuplicateError")
                <=> ShareIdentifier(opening.checked))

\* A construction that raised for a duplicate dataset.
C11_Witness ==
    /\ opening # None
    /\ opening.pc = "failed"
    /\ opening.err = "WsiDicomUidDuplicateError"
    /\ Len(FailedGroup.files) = 2

\* The files of the list that match the series, by the words of the claim.
MatchesSeries(dataset) ==
    /\ dataset.base_uids = opening.series_uids
    /\ opening.series_tile_size = None
          \/ dataset.tile_size = opening.series_tile_size

RECURSIVE InOrder(_, _)
InOrder(n, i) ==
    IF i > n THEN <<>>
    ELSE IF MatchesSeries(opening.files[i])
         THEN <<i>> \o InOrder(n, i + 1)
         ELSE InOrder(n, i + 1)

\* C12: filter_files returns the matching files in the order of the input,
\* closes and warns about every other file and no matching file, and raises
\* nothing.
C12_FilterFiles ==
    /\ opening # None
    /\ opening.pc # "called"
    => /\ opening.valid_files = InOrder(Len(opening.files), 1)
       /\ Range(opening.closed)
             = {i \in DOMAIN opening.files : ~MatchesSeries(opening.files[i])}
       /\ opening.warnings = opening.closed
       /\ Len(opening.closed) + Len(opening.valid_files) = Len(opening.files)
       /\ opening.pc = "filtered" => opening.err = "none"

\* A filtering that kept a file and dropped one for its tile size alone.
C12_Witness ==
    /\ opening # None
    /\ opening.pc = "filtered"
    /\ opening.valid_files # <<>>
    /\ \E i \in Range(opening.closed) :
          opening.files[i].base_uids = opening.series_uids

----------------------------------------------------------------------------
(* Opening files found on disk: encapsulated pixel data of any producer,    *)
(* with or without offset tables, with items of any length and with or      *)
(* without a sequence delimiter.                                            *)

MaxItems == 2

ItemLens == {0, 2, 3, 4}    \* the lengths the items of a found file declare

EndTags == {"SequenceDelimiter", "PixelData"}  \* the tag after the last item

\* What the producer of a found file wrote: the declared frame count, the
\* lengths of the items, whether an EOT precedes the pixel data, whether the
\* BOT item holds entries, the entries of a table and the closing tag.
FoundFiles ==
    UNION {[pc : {"closed"}, frame_count : 1..MaxItems, lens : {lens},
            eot : BOOLEAN, bot : BOOLEAN, entries : 0..Len(lens),
            end : EndTags] :
           lens \in UNION {[1..n -> ItemLens] : n \in 0..MaxItems}}

\* Offset of item i from the first item.
RECURSIVE ItemOffset(_, _)
ItemOffset(lens, i) ==
    IF i = 1 THEN 0
    ELSE ItemOffset(lens, i - 1) + TAG_BYTES + LENGHT_BYTES + lens[i - 1]

\* The bytes of a found file.
FoundFile(w) ==
    LET k == w.entries
        n == Len(w.lens)
        f0 == fp_write([data |-> <<>>, pos |-> 0], Header(w.frame_count))
        f1 == IF w.eot
              THEN fp_write_all(
                     _write_tag(
                       fp_write_all(
                         _write_tag(f0, "ExtendedOffsetTable", "OV", 8 * k),
                         [i \in 1..k |-> UQElem(ItemOffset(w.lens, i))]),
                       "ExtendedOffsetTableLengths", "OV", 8 * k),
                     [i \in 1..k |-> UQElem(w.lens[i])])
              ELSE f0
        f2 == _write_tag(f1, IF "tag" \in DOMAIN w THEN w.tag ELSE "PixelData",
                         "OB", UL_MAX)
        f3 == IF w.bot
              THEN fp_write_all(
                     fp_write_all(f2, <<TagElem("Item"), ULElem(4 * k)>>),
                     [i \in 1..k |-> ULElem(ItemOffset(w.lens, i))])
              ELSE fp_write_all(f2, <<TagElem("Item"), ULElem(0)>>)
        items == Flatten([i \in 1..n |->
                    <<TagElem("Item"), ULElem(w.lens[i])>>
                    \o (IF w.lens[i] = 0 THEN <<>>
                        ELSE <<Elem("data", i, w.lens[i])>>)])
        f4 == fp_write_all(f3, items)
    IN fp_write_all(f4, <<TagElem(w.end), ULElem(0)>>)

InitParse ==
    /\ IdleIndex
    /\ IdleRest
    /\ \E w \in FoundFiles :
          /\ writer = w
          /\ fp = FoundFile(w)
    /\ reader = ClosedReader
    /\ frame_read = NoFrame

NextParse ==
    \/ Open
    \/ \E frame_index \in 0..(reader.frame_count - 1) : read_frame(frame_index)

SpecParse == InitParse /\ [][NextParse]_vars

\* A found file was handed to WsiDicomFile.
FoundOpened == writer.pc = "closed" /\ "lens" \in DOMAIN writer
               /\ reader.pc # "closed"

HasEot == read_tag(fp.data, HeaderLen) = "ExtendedOffsetTable"

HasBot == writer.bot /\ writer.entries > 0

HasTable == HasEot \/ HasBot

\* Position of the first item of the found file.
FoundPixelsStart ==
    LET i == CHOOSE i \in DOMAIN fp.data :
                 fp.data[i].k = "tag" /\ fp.data[i].v = "PixelData"
    IN fp.data[i].at + 12 + 8 + (IF writer.bot THEN 4 * writer.entries ELSE 0)

\* The item data of the found file: position and length of each.
ItemPositions(count) ==
    [i \in 1..count |->
        <<FoundPixelsStart + ItemOffset(writer.lens, i)
              + TAG_BYTES + LENGHT_BYTES,
          writer.lens[i]>>]

ValidItems(count) ==
    \A i \in 1..count : writer.lens[i] # 0 /\ writer.lens[i] % 2 = 0

\* A found file with nothing wrong but, possibly, its tables: the count of
\* frames it declares is the count its table or its items give, the frames
\* have valid lengths, a delimiter ends the items, a table has an entry.
WellFormedButTables ==
    /\ writer.end = "SequenceDelimiter"
    /\ IF writer.eot \/ writer.bot
       THEN /\ writer.entries > 0
            /\ writer.frame_count = writer.entries
            /\ ValidItems(writer.entries)
       ELSE /\ writer.frame_count = Len(writer.lens)
            /\ ValidItems(Len(writer.lens))

\* C13: a file with an extended offset table before the pixel data and a
\* basic offset table that is not empty fails to open with a file error; a
\* file with one of the tables or none does not fail on account of its
\* tables.
C13_BothTables ==
    FoundOpened
    => /\ HasEot /\ HasBot
          => reader.pc = "failed" /\ reader.err = "WsiDicomFileError"
       /\ ~(HasEot /\ HasBot) /\ WellFormedButTables => reader.pc = "open"

\* A well-formed file but for its two tables, refused.
C13_Witness ==
    /\ FoundOpened
    /\ HasEot /\ HasBot
    /\ writer.end = "SequenceDelimiter"
    /\ writer.frame_count = writer.entries
    /\ ValidItems(Len(writer.lens))
    /\ reader.pc = "failed"

\* A file with the extended offset table alone, opened.
C13_WitnessOneTable ==
    /\ FoundOpened
    /\ HasEot /\ ~HasBot
    /\ reader.pc = "open"

\* The count of frame positions the table or, without a table, the items of
\* the found file give.
FoundPositions == IF HasTable THEN writer.entries ELSE Len(writer.lens)

\* C14: a file whose count of parsed frame positions differs from the frame
\* count it declares fails to open with a file error, and an opened file
\* has as many frame positions as its frame count.
C14_FrameCount ==
    FoundOpened
    => /\ FoundPositions # writer.frame_count
          => reader.pc = "failed" /\ reader.err = "WsiDicomFileError"
       /\ reader.pc = "open"
          => Len(reader.frame_positions) = reader.frame_count

\* A file with valid items and a delimiter, refused for its frame count.
C14_Witness ==
    /\ FoundOpened
    /\ ~HasTable
    /\ ValidItems(Len(writer.lens))
    /\ writer.end = "SequenceDelimiter"
    /\ Len(writer.lens) = 2
    /\ writer.frame_count = 1
    /\ reader.pc = "failed"

\* C15: without a table the items are scanned in order: an item of zero or
\* odd length and a closing tag other than the sequence delimiter each fail
\* the open with a file error, and otherwise one position, 8 bytes after the
\* start of the item, and the item's length are recorded per item.
C15_LinearScan ==
    FoundOpened /\ ~HasTable /\ ~writer.eot
    => /\ ~ValidItems(Len(writer.lens))
          => reader.pc = "failed" /\ reader.err = "WsiDicomFileError"
       /\ writer.end # "SequenceDelimiter"
          => reader.pc = "failed" /\ reader.err = "WsiDicomFileError"
       /\ reader.pc = "open"
          => reader.frame_positions = ItemPositions(Len(writer.lens))
       /\ (/\ ValidItems(Len(writer.lens))
           /\ writer.end = "SequenceDelimiter"
           /\ writer.frame_count = Len(writer.lens))
          => reader.pc = "open"

\* Two items of different lengths scanned.
C15_Witness ==
    /\ FoundOpened
    /\ ~HasTable /\ ~writer.eot
    /\ reader.pc = "open"
    /\ Len(reader.frame_positions) = 2
    /\ reader.frame_positions[1][2] # reader.frame_positions[2][2]

\* A file whose items end without a sequence delimiter, refused.
C15_WitnessNoDelimiter ==
    /\ FoundOpened
    /\ ~HasTable /\ ~writer.eot
    /\ ValidItems(Len(writer.lens))
    /\ writer.frame_count = Len(writer.lens)
    /\ writer.end # "SequenceDelimiter"
    /\ reader.pc = "failed"

----------------------------------------------------------------------------
(* Further properties of tile requests *)

\* Tile regions asked about: from one tile outside the plane on, up to
\* three tiles wide and high.
QueryRegions ==
    {Region(tile, Size(w, h)) : tile \in QueryTiles, w \in 0..2, h \in 0..2}

\* The tiles a region names lie in the plane, and z and path are declared.
WithinPlane(region, z, path) ==
    LET tiled_size == image_data.tiles.tiled_size IN
    /\ \A x \in region.position.x..(region.position.x + region.size.width) :
          x \in 0..(tiled_size.width - 1)
    /\ \A y \in region.position.y..(region.position.y + region.size.height) :
          y \in 0..(tiled_size.height - 1)
    /\ \E i \in DOMAIN image_data.tiles.focal_planes :
          image_data.tiles.focal_planes[i] = z
    /\ \E i \in DOMAIN image_data.tiles.optical_paths :
          image_data.tiles.optical_paths[i] = path

\* C16: valid_tiles holds exactly for the tile regions within
\* [0, tiled_size - 1] on both axes with a declared z and a declared path,
\* and a request for a tile for which it does not hold raises
\* WsiDicomOutOfBoundsError without a call to the tile index and without a
\* read of a file.
C16_ValidTiles ==
    Requested
    => LET request == tile_result.request IN
       /\ \A region \in QueryRegions :
             valid_tiles(image_data, region, request.z, request.path)
                <=> WithinPlane(region, request.z, request.path)
       /\ ~WithinPlane(Region(request.tile, Size(0, 0)), request.z,
                       request.path)
          => /\ tile_result.err = "WsiDicomOutOfBoundsError"
             /\ tile_result.index_calls = 0
             /\ file_reads = <<>>

\* A request for a tile of the plane on an optical path that is not
\* declared, refused.
C16_Witness ==
    /\ Requested
    /\ tile_result.request.tile = Point(0, 0)
    /\ tile_result.request.z \in Range(image_data.tiles.focal_planes)
    /\ tile_result.request.path \notin Range(image_data.tiles.optical_paths)
    /\ tile_result.err = "WsiDicomOutOfBoundsError"

----------------------------------------------------------------------------
(* Frames asked for by their number *)

\* Frame numbers asked for: from one below the first frame to one above
\* the last frame a concatenation can hold.
QueryFrames == -1..(MaxFrames + 1)

\* WsiDicomImageData._get_tile_frame on a frame number.
GetTileFrame(frame_index) ==
    LET frame == _get_tile_frame(image_data, frame_index) IN
    /\ image_data # None
    /\ tile_result = None
    /\ tile_result' = [request |-> [frame_index |-> frame_index],
                       err |-> frame.err, frame_index |-> frame_index,
                       out |-> IF frame.err # "none" THEN "error"
                               ELSE "frame",
                       index_calls |-> 0]
    /\ file_reads' = frame.reads
    /\ UNCHANGED <<image_data, blank_cache, fileVars, restVars>>

InitFrames == InitIndexOf(SparseFileLists, FALSE)

NextFrames == \E frame_index \in QueryFrames : GetTileFrame(frame_index)

SpecFrames == InitFrames /\ [][NextFrames]_vars

\* The files of the instance whose frame range holds frame number n.
Holders(n) ==
    {i \in DOMAIN image_data.files :
        n \in image_data.files[i].frame_offset
              ..(image_data.files[i].frame_offset
                 + image_data.files[i].frame_count - 1)}

\* C17: a frame number is read from a file whose range
\* [frame_offset, frame_offset + frame_count) holds it, at the local index
\* n - frame_offset, which lies in [0, frame_count); a frame number no file
\* holds raises WsiDicomNotFoundError.
C17_FrameFile ==
    Requested /\ "frame_index" \in DOMAIN tile_result.request
    => LET n == tile_result.request.frame_index IN
       IF Holders(n) = {}
       THEN tile_result.err = "WsiDicomNotFoundError" /\ file_reads = <<>>
       ELSE /\ tile_result.err = "none"
            /\ Len(file_reads) = 1
            /\ \E i \in Holders(n) :
                  /\ file_reads[1].file = image_data.files[i].id
                  /\ file_reads[1].local = n - image_data.files[i].frame_offset
                  /\ file_reads[1].local
                        \in 0..(image_data.files[i].frame_count - 1)

\* A frame read from the second file of a concatenation.
C17_Witness ==
    /\ Requested /\ "frame_index" \in DOMAIN tile_result.request
    /\ tile_result.request.frame_index > 0
    /\ tile_result.err = "none"
    /\ file_reads = <<[file |-> 2, local |-> 0]>>

\* A frame number beyond the last file, refused.
C17_WitnessNotFound ==
    /\ Requested /\ "frame_index" \in DOMAIN tile_result.request
    /\ tile_result.request.frame_index > 0
    /\ tile_result.err = "WsiDicomNotFoundError"

----------------------------------------------------------------------------
(* ImageData: the blank tile *)

BLACK == 0

WHITE == 255

\* The defined terms of PhotometricInterpretation.
PhotometricInterpretations ==
    {"MONOCHROME1", "MONOCHROME2", "PALETTE COLOR", "RGB", "YBR_FULL",
     "YBR_FULL_422", "YBR_PARTIAL_420", "YBR_ICT", "YBR_RCT"}

BlankTileSizes == {Size(1, 1), Size(2, 2), Size(2, 4), Size(4, 2)}

\* Variant of _get_blank_color that takes both monochromes for black.
_get_blank_color_monochromes(photometric_interpretation) ==
    IF photometric_interpretation \in {"MONOCHROME1", "MONOCHROME2"}
    THEN <<BLACK, BLACK, BLACK>>
    ELSE <<WHITE, WHITE, WHITE>>

\* ImageData._get_blank_color
_get_blank_color(photometric_interpretation) ==
    IF photometric_interpretation = "MONOCHROME2"
    THEN <<BLACK, BLACK, BLACK>>
    ELSE <<WHITE, WHITE, WHITE>>

\* ImageData.blank_color
blank_color(data) == _get_blank_color(data.photometric_interpretation)

\* ImageData.image_mode
image_mode(data) == IF data.samples_per_pixel = 1 THEN "L" ELSE "RGB"

\* ImageData._create_blank_tile
_create_blank_tile(data) ==
    [mode |-> image_mode(data), size |-> data.tile_size,
     color |-> SubSeq(blank_color(data), 1, data.samples_per_pixel)]

InitBlank ==
    /\ \E pi \in PhotometricInterpretations, spp \in {1, 3},
          ts \in BlankTileSizes :
          image_data = [kind |-> "image_data",
                        photometric_interpretation |-> pi,
                        samples_per_pixel |-> spp, tile_size |-> ts]
    /\ blank_cache = [tile |-> FALSE, encoded |-> FALSE]
    /\ file_reads = <<>>
    /\ tile_result = None
    /\ IdleFile
    /\ IdleRest

\* ImageData.blank_tile
BlankTile ==
    /\ image_data # None
    /\ blank_cache' = [blank_cache EXCEPT !.tile = TRUE]
    /\ tile_result' = [out |-> "blank_tile",
                       image |-> _create_blank_tile(image_data)]
    /\ UNCHANGED <<image_data, file_reads, fileVars, restVars>>

\* ImageData.blank_encoded_tile
BlankEncodedTile ==
    /\ image_data # None
    /\ blank_cache' = [tile |-> TRUE, encoded |-> TRUE]
    /\ tile_result' = [out |-> "blank_encoded_tile",
                       image |-> _create_blank_tile(image_data)]
    /\ UNCHANGED <<image_data, file_reads, fileVars, restVars>>

NextBlank == BlankTile \/ BlankEncodedTile

SpecBlank == InitBlank /\ [][NextBlank]_vars

BlankMade == tile_result # None /\ "image" \in DOMAIN tile_result

\* C18: the blank tile is black, (0, 0, 0), when the photometric
\* interpretation is MONOCHROME2 and white, (255, 255, 255), otherwise, cut
\* to the samples per pixel.
C18_BlankColor ==
    BlankMade
    => LET color == tile_result.image.color IN
       /\ Len(color) = image_data.samples_per_pixel
       /\ \A i \in DOMAIN color :
             color[i] = IF image_data.photometric_interpretation
                           = "MONOCHROME2" THEN 0 ELSE 255
       /\ blank_color(image_data)
             = IF image_data.photometric_interpretation = "MONOCHROME2"
               THEN <<0, 0, 0>> ELSE <<255, 255, 255>>

\* A white blank tile made for MONOCHROME1.
C18_Witness ==
    /\ BlankMade
    /\ image_data.photometric_interpretation = "MONOCHROME1"
    /\ tile_result.image.color = <<255>>

----------------------------------------------------------------------------
(* The order of the writes of WsiDicomFileWriter.write *)

\* Positions of the table entries reserved at the start of the pixel data.
ReservedEntries(w) ==
    LET n == w.number_of_frames IN
    IF w.offset_table = "bot"
    THEN {w.table_start + 8 + 4 * i : i \in 0..(n - 1)}
    ELSE IF w.offset_table = "eot"
    THEN {w.table_start + 12 + 8 * i : i \in 0..(n - 1)}
         \cup {w.table_start + 12 + 8 * n + 12 + 8 * i : i \in 0..(n - 1)}
    ELSE {}

\* Every reserved table entry of the file holds zero.
ZeroFilled(data, w) ==
    \A pos \in ReservedEntries(w) :
        /\ IndexAt(data, pos) # 0
        /\ data[IndexAt(data, pos)].k \in {"ul", "uq"}
        /\ data[IndexAt(data, pos)].v = 0

\* The bytes of old are the first bytes of new.
Extends(new, old) ==
    Len(new) >= Len(old) /\ SubSeq(new, 1, Len(old)) = old

\* The frame items from position i of the list on lie one after the other,
\* the first at from and the last ending at to.
RECURSIVE Sequential(_, _, _, _, _)
Sequential(data, frame_positions, i, from, to) ==
    IF i > Len(frame_positions) THEN from = to
    ELSE /\ frame_positions[i] = from
         /\ read_tag(data, from) = "Item"
         /\ Sequential(data, frame_positions, i + 1,
                       from + TAG_BYTES + LENGHT_BYTES
                           + read_UL(data, from + TAG_BYTES), to)

\* The start of write: the table is reserved and zero, no frame follows.
StartStep ==
    /\ ZeroFilled(fp'.data, writer')
    /\ \A pos \in ReservedEntries(writer') : pos < writer'.pixels_start
    /\ FileEnd(fp'.data) = writer'.pixels_start
    /\ writer'.frame_positions = <<>>

\* A plane of write: its frames are appended one after the other at the end
\* of the file and nothing written before changes.
PlaneStep ==
    /\ Extends(fp'.data, fp.data)
    /\ Extends(writer'.frame_positions, writer.frame_positions)
    /\ Len(writer'.frame_positions) > Len(writer.frame_positions)
    /\ Sequential(fp'.data, writer'.frame_positions,
                  Len(writer.frame_positions) + 1,
                  FileEnd(fp.data), FileEnd(fp'.data))
    /\ ZeroFilled(fp'.data, writer')

\* The end of write: the delimiter is appended after the last frame, and of
\* the bytes written before only reserved table entries change.
EndStep ==
    /\ Len(fp'.data) = Len(fp.data) + 2
    /\ fp'.data[Len(fp.data) + 1]
          = [TagElem("SequenceDelimiter") EXCEPT !.at = FileEnd(fp.data)]
    /\ fp'.data[Len(fp.data) + 2].k = "ul"
    /\ fp'.data[Len(fp.data) + 2].v = 0
    /\ writer'.pixels_end = FileEnd(fp.data)
    /\ writer'.frame_positions = writer.frame_positions
    /\ \A j \in DOMAIN fp.data :
          \/ fp'.data[j] = fp.data[j]
          \/ /\ fp.data[j].at \in ReservedEntries(writer)
             /\ fp'.data[j].at = fp.data[j].at
             /\ fp'.data[j].n = fp.data[j].n
             /\ fp'.data[j].k = fp.data[j].k

\* C19: write reserves the table zero-filled before the first frame item,
\* appends the frames one after the other, writes the delimiter after the
\* last frame and overwrites table entries only then, changing no byte
\* outside the reserved entries; no other step writes to the file.
C19_WriteOrder ==
    [][/\ writer.pc = "new" /\ writer'.pc # "new" => StartStep
       /\ writer.pc = "pixels" /\ writer'.pc = "pixels" => PlaneStep
       /\ writer.pc = "pixels" /\ writer'.pc \in {"closed", "failed"}
             => EndStep
       /\ writer.pc \in {"closed", "failed"} => fp' = fp]_vars

\* A written file whose basic offset table was filled in for two frames.
C19_Witness ==
    /\ writer # None
    /\ writer.pc = "closed"
    /\ "offset_table" \in DOMAIN writer
    /\ writer.offset_table = "bot"
    /\ Len(writer.frame_positions) >= 2
    /\ read_UL(fp.data, writer.table_start + 12) > 0

----------------------------------------------------------------------------
(* The frames declared and the frames written *)

\* All planes of the write are written.
PlanesWritten ==
    /\ writer # None
    /\ "number_of_frames" \in DOMAIN writer
    /\ writer.pc \in {"pixels", "closed", "failed"}
    /\ writer.plane > Len(writer.source.planes)

\* The written file declares the frames it holds: the check of tag and
\* length before the table is filled in passes and the file opens.
DeclaredAreWritten ==
    /\ writer.number_of_frames = Len(writer.frame_positions)
    /\ writer.err # "ValueError"
    /\ reader.pc # "failed"

\* C20: for every tile source and scale the NumberOfFrames declared by
\* as_tiled_full is the count of frame items written, so that the check of
\* tag and length before the table is filled in passes and the file opens
\* again without a mismatch of the frame count.
C20_DeclaredFrames == PlanesWritten => DeclaredAreWritten

\* The same for writes at scale 1, where the declared count is the count of
\* the tiles of the planes.
C20_DeclaredFramesAtScale1 ==
    PlanesWritten /\ writer.scale = 1 => DeclaredAreWritten

\* A write at scale 2 that failed the check of tag and length.
C20_WitnessScaled ==
    /\ PlanesWritten
    /\ writer.scale = 2
    /\ writer.number_of_frames < Len(writer.frame_positions)
    /\ writer.pc = "failed"
    /\ writer.err = "ValueError"

----------------------------------------------------------------------------
(* The lengths block of the extended offset table *)

\* A file written with the extended offset table and opened again.
EotWrittenAndOpened ==
    /\ writer # None
    /\ "offset_table" \in DOMAIN writer
    /\ writer.pc = "closed"
    /\ writer.offset_table = "eot"
    /\ reader.pc = "open"

\* Entry i of the ExtendedOffsetTableLengths block of the written file.
EotLengthEntry(i) ==
    LET n == writer.number_of_frames
        pos == writer.table_start + 12 + 8 * n + 12 + 8 * (i - 1)
    IN fp.data[IndexAt(fp.data, pos)].v

\* C21: every entry of the lengths block of the extended offset table is
\* the payload length of its frame item, which is the length the reader
\* reports for the frame, for the frames before the last and for the last.
C21_EotLengths ==
    EotWrittenAndOpened
    => \A i \in DOMAIN reader.frame_positions :
          EotLengthEntry(i) = reader.frame_positions[i][2]

\* The entry of the last frame is the payload length of its item.
C21_LastEotLength ==
    EotWrittenAndOpened
    => EotLengthEntry(Len(reader.frame_positions))
          = reader.frame_positions[Len(reader.frame_positions)][2]

\* The entries of the frames before the last are the payload length plus
\* the 8 bytes of the item's tag and length.
C21_EarlierEotLengths ==
    EotWrittenAndOpened
    => \A i \in 1..(Len(reader.frame_positions) - 1) :
          EotLengthEntry(i) = reader.frame_positions[i][2]
                              + TAG_BYTES + LENGHT_BYTES

\* A file of two frames or more written with the extended offset table.
C21_WitnessTwoFrames ==
    EotWrittenAndOpened /\ Len(reader.frame_positions) >= 2

----------------------------------------------------------------------------
(* The chunks of tile points handed to the workers *)

MaxChunkWidth == 4

MaxChunkSize == 4

ChunkTiledSizes == {Size(w, h) : w \in 1..MaxChunkWidth, h \in 1..2}

ChunkHints == {1, 2, 3}     \* suggested_minimum_chunk_size, 1 if not given

InitChunk ==
    /\ IdleIndex
    /\ IdleFile
    /\ calls = None
    /\ stitch = None
    /\ opening = None
    /\ \E tiled_size \in ChunkTiledSizes, hint \in ChunkHints,
          chunk_size \in 1..MaxChunkSize, scale \in Scales :
          pool = [pc |-> "chunks", tiled_size |-> tiled_size,
                  minimum_chunk_size |-> hint,
                  requested_chunk_size |-> chunk_size, scale |-> scale,
                  chunk_size |-> EffectiveChunkSize(hint, chunk_size),
                  yielded |-> <<>>]

\* The chunks the generator of the call yields.
ChunksOf(p) ==
    _chunk_tile_points(p.tiled_size, p.minimum_chunk_size,
                       p.requested_chunk_size, p.scale)

\* The generator of _chunk_tile_points yields its next chunk.
NextChunk ==
    /\ pool.pc = "chunks"
    /\ Len(pool.yielded) < Len(ChunksOf(pool))
    /\ pool' = [pool EXCEPT
                  !.yielded = Append(@, ChunksOf(pool)[Len(pool.yielded) + 1])]
    /\ UNCHANGED <<idxVars, fileVars, calls, stitch, opening>>

\* The generator of _chunk_tile_points is exhausted.
ChunksExhausted ==
    /\ pool.pc = "chunks"
    /\ Len(pool.yielded) = Len(ChunksOf(pool))
    /\ pool' = [pool EXCEPT !.pc = "exhausted"]
    /\ UNCHANGED <<idxVars, fileVars, calls, stitch, opening>>

NextChunks == NextChunk \/ ChunksExhausted

SpecChunk == InitChunk /\ [][NextChunks]_vars

\* The tile coordinates of a plane in row-major order, x fastest.
RowMajor(size) ==
    [k \in 1..(size.width * size.height) |->
        Point((k - 1) % size.width, (k - 1) \div size.width)]

\* The tiled size of the plane written at the scale of the call.
ScaledPlane ==
    Size((pool.tiled_size.width + pool.scale - 1) \div pool.scale,
         (pool.tiled_size.height + pool.scale - 1) \div pool.scale)

\* C22: the chunks, one after the other as generated, list the tile
\* coordinates of the scaled plane once each in row-major order, and every
\* chunk lies in one tile row and holds no more tiles than the effective
\* chunk size.
C22_Chunks ==
    pool # None /\ "yielded" \in DOMAIN pool
    => /\ IsPrefix(Flatten(pool.yielded), RowMajor(ScaledPlane))
       /\ pool.pc = "exhausted"
          => Flatten(pool.yielded) = RowMajor(ScaledPlane)
       /\ \A c \in DOMAIN pool.yielded :
             /\ Len(pool.yielded[c]) \in 1..pool.chunk_size
             /\ \A i, j \in DOMAIN pool.yielded[c] :
                   pool.yielded[c][i].y = pool.yielded[c][j].y

\* Chunks of two rows of three tiles, the second chunk of a row cut short.
C22_Witness ==
    /\ pool # None /\ "yielded" \in DOMAIN pool
    /\ pool.pc = "exhausted"
    /\ pool.scale = 1
    /\ pool.tiled_size = Size(3, 2)
    /\ pool.chunk_size = 2
    /\ Len(pool.yielded) = 4
    /\ Len(pool.yielded[2]) = 1

\* C23: the effective chunk size is max(m, floor(chunk_size / m) * m) for
\* the minimum chunk hint m: a positive multiple of m, not below m, and not
\* above the configured chunk size when that is m or more.
C23_EffectiveChunkSize ==
    pool # None /\ "yielded" \in DOMAIN pool
    => LET m == pool.minimum_chunk_size
           configured == pool.requested_chunk_size
           floored == CHOOSE k \in 0..configured :
                         k * m <= configured /\ (k + 1) * m > configured
       IN /\ pool.chunk_size = Max(m, floored * m)
          /\ pool.chunk_size > 0
          /\ pool.chunk_size % m = 0
          /\ pool.chunk_size >= m
          /\ configured >= m => pool.chunk_size <= configured
          /\ \A c \in DOMAIN pool.yielded :
                Len(pool.yielded[c]) <= pool.chunk_size

\* A configured chunk size rounded down to a multiple of the hint, in use.
C23_Witness ==
    /\ pool # None /\ "yielded" \in DOMAIN pool
    /\ pool.minimum_chunk_size = 2
    /\ pool.requested_chunk_size = 3
    /\ pool.chunk_size = 2
    /\ pool.yielded # <<>>

----------------------------------------------------------------------------
(* The worker threads of _write_pixel_data on a sparse tile source: a tile  *)
(* that is absent from the source is the source's blank encoded tile, made  *)
(* on first use and kept by the source.                                     *)

BlankTileLen == 2       \* byte length of the encoded blank tile

PlanePoints(tiled_size) ==
    {Point(x, y) : x \in 0..(tiled_size.width - 1),
                   y \in 0..(tiled_size.height - 1)}

InitWorkers ==
    /\ image_data = None
    /\ blank_cache = [tile |-> FALSE, encoded |-> FALSE]
    /\ file_reads = <<>>
    /\ tile_result = None
    /\ fp = NewFile
    /\ writer = None
    /\ reader = None
    /\ frame_read = None
    /\ calls = None
    /\ stitch = None
    /\ opening = None
    /\ \E tiled_size \in PoolTiledSizes, chunk_size \in ChunkSizes,
          workers \in 1..MaxWorkers :
          \E blank \in SUBSET PlanePoints(tiled_size) :
          LET source == PoolSource(tiled_size)
              chunks == _chunk_tile_points(tiled_size,
                            source.minimum_chunk_size, chunk_size, 1)
          IN pool = [pc |-> "map", source |-> source, scale |-> 1,
                     max_workers |-> workers, chunks |-> chunks,
                     status |-> [i \in DOMAIN chunks |-> "new"],
                     results |-> [i \in DOMAIN chunks |-> <<>>],
                     done_order |-> <<>>, drained |-> <<>>,
                     frame_positions |-> <<>>,
                     blank |-> blank, cache_writes |-> 0]

\* The chunk of task i holds a tile that is absent from the source.
HasBlank(i) == \E k \in DOMAIN pool.chunks[i] : pool.chunks[i][k] \in pool.blank

\* ImageData.blank_encoded_tile in a worker thread: the test of the cache.
WorkerBlankTile(i) ==
    /\ pool.status[i] = "running"
    /\ HasBlank(i)
    /\ pool' = [pool EXCEPT !.status[i] = IF blank_cache.encoded
                                           THEN "looked" ELSE "creating"]
    /\ UNCHANGED <<idxVars, fileVars, calls, stitch, opening>>

\* ImageData.blank_encoded_tile in a worker thread: the blank tile is made,
\* encoded and stored.
WorkerCreateBlank(i) ==
    /\ pool.status[i] = "creating"
    /\ blank_cache' = [tile |-> TRUE, encoded |-> TRUE]
    /\ pool' = [pool EXCEPT !.status[i] = "looked",
                            !.cache_writes = @ + 1]
    /\ UNCHANGED <<image_data, file_reads, tile_result, fileVars, calls,
                   stitch, opening>>

\* get_encoded_tiles of a chunk on the sparse source.
get_sparse_tiles(p, i) ==
    LET tiles == get_tiles(p.source, 1, p.scale, p.chunks[i]) IN
    [k \in DOMAIN tiles |->
        IF p.chunks[i][k] \in p.blank
        THEN [id |-> <<"blank">>, n |-> BlankTileLen]
        ELSE tiles[k]]

\* Variant of the thread function that writes its tiles itself.
get_tiles_thread_writes(f, tiles) == WriteTiles(f, <<>>, tiles).fp

\* get_tiles_thread: the output file after the thread function, which
\* returns its tiles and writes none.
get_tiles_thread(f, tiles) == f

\* A worker thread finishes the thread function for its chunk.
WorkerTiles(i) ==
    /\ \/ pool.status[i] = "running" /\ ~HasBlank(i)
       \/ pool.status[i] = "looked"
    /\ pool' = [pool EXCEPT !.status[i] = "done",
                            !.results[i] = get_sparse_tiles(pool, i),
                            !.done_order = Append(@, i)]
    /\ fp' = get_tiles_thread(fp, get_sparse_tiles(pool, i))
    /\ UNCHANGED <<idxVars, writer, reader, frame_read, calls, stitch,
                   opening>>

NextWorkers ==
    \/ Submit
    \/ \E i \in DOMAIN pool.chunks : WorkerStart(i)
    \/ \E i \in DOMAIN pool.chunks : WorkerBlankTile(i)
    \/ \E i \in DOMAIN pool.chunks : WorkerCreateBlank(i)
    \/ \E i \in DOMAIN pool.chunks : WorkerTiles(i)
    \/ Drain
    \/ PoolReturn

SpecWorkers == InitWorkers /\ [][NextWorkers]_vars

\* The step is one of the worker thread of task i.
WorkerStepOf(i) ==
    /\ pool.status[i] \in {"queued", "running", "creating", "looked"}
    /\ pool'.status[i] # pool.status[i]

\* The step leaves the output stream and the recorded frame positions.
OutputUntouched ==
    /\ fp' = fp
    /\ pool'.frame_positions = pool.frame_positions
    /\ pool'.drained = pool.drained

\* The step leaves the tasks of the other workers.
OwnTaskOnly(i) ==
    \A j \in DOMAIN pool.chunks :
        j # i => /\ pool'.status[j] = pool.status[j]
                 /\ pool'.results[j] = pool.results[j]

\* The step writes the output stream: it is the submitting thread's.
OutputStep ==
    (fp' # fp \/ pool'.frame_positions # pool.frame_positions)
    => /\ pool'.status = pool.status
       /\ pool'.drained # pool.drained

\* C24: a step of a worker thread only produces the tiles of its own chunk
\* and changes no state another worker reads, and the output stream and the
\* recorded frame positions change in steps of the submitting thread only.
C24_NoSharedState ==
    [][/\ \A i \in DOMAIN pool.chunks :
             WorkerStepOf(i)
             => OutputUntouched /\ OwnTaskOnly(i) /\ UNCHANGED blank_cache
       /\ OutputStep]_vars

\* C24 as the code has it: a step of a worker thread only produces the
\* tiles of its own chunk and leaves the output stream and the recorded
\* frame positions, which change in steps of the submitting thread only;
\* the one state workers share is the blank tile kept by the tile source,
\* which a worker whose chunk holds an absent tile sets when it found none.
C24_SharedBlankTileOnly ==
    [][/\ \A i \in DOMAIN pool.chunks :
             WorkerStepOf(i)
             => /\ OutputUntouched
                /\ OwnTaskOnly(i)
                /\ blank_cache' # blank_cache
                   => /\ HasBlank(i)
                      /\ blank_cache' = [tile |-> TRUE, encoded |-> TRUE]
       /\ OutputStep]_vars

\* Two workers found no blank tile and each stored one.
C24_Witness ==
    /\ pool # None
    /\ "cache_writes" \in DOMAIN pool
    /\ pool.cache_writes = 2
    /\ pool.pc = "returned"

----------------------------------------------------------------------------
(* ImageData.get_tile and get_encoded_tile with a crop *)

MaxCropSize == 3

CropImageSizes == {Size(3, 3), Size(4, 3), Size(4, 4)}

CropFalse == [kind |-> "False"]

CropTrue == [kind |-> "True"]

\* The crop arguments: False, True, or a region of the image.
Crops(image_size) ==
    {CropFalse, CropTrue}
    \cup {Region(Point(x, y), Size(w, h)) :
            x \in 0..(image_size.width - 1), y \in 0..(image_size.height - 1),
            w \in 1..MaxCropSize, h \in {2, MaxCropSize}}

\* A decoded tile: the part of the tile the image shows, relative to the
\* origin of the tile, and the times it was encoded.
TileImage(tile, tile_size) ==
    [tile |-> tile, shows |-> Region(Point(0, 0), tile_size)]

\* Region.box: (left, upper, right, lower)
Region_box(region) ==
    <<Region_start(region).x, Region_start(region).y,
      Region_end(region).x, Region_end(region).y>>

\* Region.box_from_origin: (0, 0, width, height)
Region_box_from_origin(region) ==
    <<0, 0, region.size.width, region.size.height>>

\* PIL.Image.crop(box): a new image of the box; the image stays as it is.
Image_crop(image, box) ==
    [image EXCEPT !.shows =
        Region(Point(image.shows.position.x + box[1],
                     image.shows.position.y + box[2]),
               Size(box[3] - box[1], box[4] - box[2]))]

\* ImageData.image_region
image_region(data) == Region(Point(0, 0), data.image_size)

\* ImageData.get_tile: the image returned.
get_tile(data, tile, crop) ==
    LET image == TileImage(tile, data.tile_size)
        region == IF crop = CropTrue THEN image_region(data) ELSE crop
        tile_crop == Region_inside_crop(region, tile, data.tile_size)
    IN IF crop = CropFalse THEN image
       ELSE IF tile_crop.size = data.tile_size THEN image
       ELSE Image_crop(image, Region_box(tile_crop))

\* Variant of get_encoded_tile that encodes the image crop returns.
get_encoded_tile_cropped(data, tile, crop) ==
    LET image == TileImage(tile, data.tile_size)
        region == IF crop = CropTrue THEN image_region(data) ELSE crop
        cropped_tile_region == Region_inside_crop(region, tile, data.tile_size)
    IN IF crop = CropFalse THEN image
       ELSE IF cropped_tile_region.size # data.tile_size
       THEN Image_crop(image, Region_box(cropped_tile_region))
       ELSE image

\* ImageData.get_encoded_tile: the image of the bytes returned.  The result
\* of image.crop is dropped and the image that was opened is encoded.
get_encoded_tile(data, tile, crop) ==
    LET image == TileImage(tile, data.tile_size)
        region == IF crop = CropTrue THEN image_region(data) ELSE crop
        cropped_tile_region == Region_inside_crop(region, tile, data.tile_size)
        dropped == Image_crop(image,
                              Region_box_from_origin(cropped_tile_region))
    IN IF crop = CropFalse THEN image
       ELSE IF cropped_tile_region.size # data.tile_size
       THEN image
       ELSE image

InitCrop ==
    /\ \E image_size \in CropImageSizes :
          image_data = [kind |-> "image_data", image_size |-> image_size,
                        tile_size |-> TileSize]
    /\ blank_cache = [tile |-> FALSE, encoded |-> FALSE]
    /\ file_reads = <<>>
    /\ tile_result = None
    /\ IdleFile
    /\ IdleRest

CropTiles ==
    PlanePoints(Size_truediv(image_data.image_size, image_data.tile_size))

GetTileCropped(tile, crop) ==
    /\ tile_result' = [out |-> "tile", tile |-> tile, crop |-> crop,
                       image |-> get_tile(image_data, tile, crop)]
    /\ UNCHANGED <<image_data, blank_cache, file_reads, fileVars, restVars>>

GetEncodedTileCropped(tile, crop) ==
    /\ tile_result' = [out |-> "encoded_tile", tile |-> tile, crop |-> crop,
                       image |-> get_encoded_tile(image_data, tile, crop)]
    /\ UNCHANGED <<image_data, blank_cache, file_reads, fileVars, restVars>>

NextCrop ==
    \E tile \in CropTiles, crop \in Crops(image_data.image_size) :
        \/ GetTileCropped(tile, crop)
        \/ GetEncodedTileCropped(tile, crop)

SpecCrop == InitCrop /\ [][NextCrop]_vars

\* The pixels of a region.
Pixels(region) ==
    {Point(x, y) :
        x \in region.position.x..(region.position.x + region.size.width - 1),
        y \in region.position.y..(region.position.y + region.size.height - 1)}

\* The pixels of the image a tile covers.
TilePixels(tile) ==
    Pixels(Region(Point(tile.x * image_data.tile_size.width,
                        tile.y * image_data.tile_size.height),
                  image_data.tile_size))

\* The pixels of the image a returned tile image shows.
ShownPixels(image) ==
    Pixels(Region(Point(image.tile.x * image_data.tile_size.width
                            + image.shows.position.x,
                        image.tile.y * image_data.tile_size.height
                            + image.shows.position.y),
                  image.shows.size))

\* The pixels of the crop region of a request.
CropPixels(crop) ==
    IF crop = CropTrue THEN Pixels(Region(Point(0, 0), image_data.image_size))
    ELSE Pixels(crop)

Cropped == tile_result # None /\ "crop" \in DOMAIN tile_result

\* The returned image shows the tile within the crop region when the tile
\* overlaps the region in part, and the whole tile when it lies within the
\* region or crop is False.
CroppedToIntersection ==
    LET tile == TilePixels(tile_result.tile)
        inside == IF tile_result.crop = CropFalse THEN tile
                  ELSE tile \cap CropPixels(tile_result.crop)
    IN inside # {} => ShownPixels(tile_result.image) = inside

\* C25: get_tile and get_encoded_tile with a crop region, or with crop=True
\* for the region of the image, return the tile cut to its intersection with
\* the region when the tile overlaps the region in part, and the tile as it
\* is when it lies within the region or crop is False.
C25_CropToIntersection == Cropped => CroppedToIntersection

\* The same for get_tile alone.
C25_GetTileCropsToIntersection ==
    Cropped /\ tile_result.out = "tile" => CroppedToIntersection

\* An edge tile asked for encoded with crop=True and returned whole.
C25_WitnessEncodedUncropped ==
    /\ Cropped
    /\ tile_result.out = "encoded_tile"
    /\ tile_result.crop = CropTrue
    /\ image_data.image_size = Size(3, 3)
    /\ tile_result.tile = Point(1, 1)
    /\ tile_result.image.shows.size = image_data.tile_size

----------------------------------------------------------------------------
(* WsiDataset.__init__: the attributes set from a pydicom dataset *)

Unset == "unset"

\* The pydicom datasets given to the constructor.
RawDatasets ==
    [DimensionOrganizationType : {"", "TILED_FULL", "TILED_SPARSE"},
     PerFrameFunctionalGroupsSequence : BOOLEAN,
     SOPInstanceUIDOfConcatenationSource : {NoUid, "c1"},
     ConcatenationFrameOffsetNumber : {Unset, "0"},
     PixelSpacing : {<<0, 1>>, <<1, 1>>},
     image_size : {Size(0, 2), Size(2, 2)}]

\* Variant of the constructor that raises the error of an undetermined
\* tile type.
WsiDataset_init_raising(dataset) ==
    LET concatenated == dataset.SOPInstanceUIDOfConcatenationSource # NoUid
        tile_type ==
            IF dataset.DimensionOrganizationType = "TILED_FULL"
            THEN "TILED_FULL"
            ELSE IF dataset.PerFrameFunctionalGroupsSequence
            THEN "TILED_SPARSE"
            ELSE Unset
    IN IF concatenated /\ dataset.ConcatenationFrameOffsetNumber = Unset
       THEN [err |-> "WsiDicomError", tile_type |-> Unset]
       ELSE IF tile_type = Unset
       THEN [err |-> "WsiDicomError", tile_type |-> Unset]
       ELSE IF \E i \in 1..2 : dataset.PixelSpacing[i] = 0
       THEN [err |-> "WsiDicomError", tile_type |-> tile_type]
       ELSE IF dataset.image_size.width = 0 \/ dataset.image_size.height = 0
       THEN [err |-> "WsiDicomFileError", tile_type |-> tile_type]
       ELSE [err |-> "none", tile_type |-> tile_type]

\* WsiDataset.__init__: the error raised and the attribute _tile_type.  In
\* the last branch of the tile type the error is made and not raised, and
\* the attribute is left unset.
WsiDataset_init(dataset) ==
    LET concatenated == dataset.SOPInstanceUIDOfConcatenationSource # NoUid
        tile_type ==
            IF dataset.DimensionOrganizationType = "TILED_FULL"
            THEN "TILED_FULL"
            ELSE IF dataset.PerFrameFunctionalGroupsSequence
            THEN "TILED_SPARSE"
            ELSE Unset
    IN IF concatenated /\ dataset.ConcatenationFrameOffsetNumber = Unset
       THEN [err |-> "WsiDicomError", tile_type |-> Unset]
       ELSE IF \E i \in 1..2 : dataset.PixelSpacing[i] = 0
       THEN [err |-> "WsiDicomError", tile_type |-> tile_type]
       ELSE IF dataset.image_size.width = 0 \/ dataset.image_size.height = 0
       THEN [err |-> "WsiDicomFileError", tile_type |-> tile_type]
       ELSE [err |-> "none", tile_type |-> tile_type]

\* WsiDataset.tile_type: the attribute, or the AttributeError of reading an
\* attribute that was never set.
tile_type(constructed) ==
    IF constructed.tile_type = Unset
    THEN [err |-> "AttributeError", v |-> Unset]
    ELSE [err |-> "none", v |-> constructed.tile_type]

InitDataset ==
    /\ IdleIndex
    /\ IdleFile
    /\ pool = None
    /\ calls = None
    /\ stitch = None
    /\ \E dataset \in RawDatasets :
          opening = [pc |-> "given", raw |-> dataset]

ConstructDataset ==
    /\ opening.pc = "given"
    /\ opening' = [pc |-> "constructed", raw |-> opening.raw,
                   dataset |-> WsiDataset_init(opening.raw)]
    /\ UNCHANGED <<idxVars, fileVars, pool, calls, stitch>>

ReadTileType ==
    /\ opening.pc = "constructed"
    /\ opening.dataset.err = "none"
    /\ opening' = [pc |-> "read", raw |-> opening.raw,
                   dataset |-> opening.dataset,
                   read |-> tile_type(opening.dataset)]
    /\ UNCHANGED <<idxVars, fileVars, pool, calls, stitch>>

NextDataset == ConstructDataset \/ ReadTileType

SpecDataset == InitDataset /\ [][NextDataset]_vars

Constructed == opening.pc \in {"constructed", "read"}

DeclaresNoTiling ==
    /\ opening.raw.DimensionOrganizationType # "TILED_FULL"
    /\ ~opening.raw.PerFrameFunctionalGroupsSequence

\* C26: every dataset constructed without an error has the tile type
\* TILED_FULL or TILED_SPARSE, and the construction of a dataset that
\* neither declares TILED_FULL nor has a per-frame functional group sequence
\* raises an error.
C26_TileTypeDetermined ==
    Constructed =>
        /\ opening.dataset.err = "none" =>
               opening.dataset.tile_type \in {"TILED_FULL", "TILED_SPARSE"}
        /\ DeclaresNoTiling => opening.dataset.err # "none"

\* A dataset that declares TILED_FULL or has the per-frame sequence and is
\* constructed without an error has the tile type declared.
C26_DeclaredTileType ==
    Constructed /\ ~DeclaresNoTiling /\ opening.dataset.err = "none" =>
        opening.dataset.tile_type =
            IF opening.raw.DimensionOrganizationType = "TILED_FULL"
            THEN "TILED_FULL" ELSE "TILED_SPARSE"

\* A dataset without tiling declarations is constructed and the read of its
\* tile type fails.
C26_WitnessUnsetTileType ==
    /\ opening.pc = "read"
    /\ DeclaresNoTiling
    /\ opening.read.err = "AttributeError"

----------------------------------------------------------------------------
(* Opening files whose pixel data element has another tag *)

\* The tags found where the pixel data is expected.
ExpectedTags == {"PixelData", "FloatPixelData"}

\* Found files with the tag of the element that holds the items.
TaggedFiles ==
    {[pc |-> w.pc, frame_count |-> w.frame_count, lens |-> w.lens,
      eot |-> w.eot, bot |-> w.bot, entries |-> w.entries, end |-> w.end,
      tag |-> tag] : w \in FoundFiles, tag \in ExpectedTags}

InitTagged ==
    /\ IdleIndex
    /\ IdleRest
    /\ \E w \in TaggedFiles :
          /\ writer = w
          /\ fp = FoundFile(w)
    /\ reader = ClosedReader
    /\ frame_read = NoFrame

SpecTagged == InitTagged /\ [][NextParse]_vars

TaggedOpened == FoundOpened /\ "tag" \in DOMAIN writer

C27_TagIgnored ==
    TaggedOpened
    => reader = WsiDicomFile(FoundFile([writer EXCEPT !.tag = "PixelData"]).data)

\* A file with another tag after its extended offset table, opened with the
\* positions of two frames.
C27_WitnessOpenedAfterEot ==
    /\ TaggedOpened
    /\ writer.tag = "FloatPixelData"
    /\ HasEot
    /\ reader.pc = "open"
    /\ Len(reader.frame_positions) = 2

\* A file with another tag and no table, opened and a frame read from it.
C27_WitnessOpenedDirectly ==
    /\ TaggedOpened
    /\ writer.tag = "FloatPixelData"
    /\ ~HasTable
    /\ reader.pc = "open"
    /\ frame_read # NoFrame

----------------------------------------------------------------------------
(* The offset tables of a written file *)

WriteStarted ==
    "offset_table" \in DOMAIN writer /\ writer.pc \in {"pixels", "closed", "failed"}

\* An extended offset table stands before the pixel data of the file.
WrittenEot == read_tag(fp.data, HeaderLen) = "ExtendedOffsetTable"

SomeEotTag ==
    \E i \in DOMAIN fp.data :
        fp.data[i].k = "tag" /\ fp.data[i].v = "ExtendedOffsetTable"

\* Position of the basic offset table item of the file, found as the reader
\* finds it.
WrittenBotPos ==
    LET tag_pos == IF WrittenEot
                   THEN _read_eot(fp.data, HeaderLen + TAG_BYTES).pos
                   ELSE HeaderLen
    IN _read_tag_length(fp.data, tag_pos + TAG_BYTES, TRUE).pos

WrittenBotLength ==
    IF read_tag(fp.data, WrittenBotPos) = "Item"
    THEN read_UL(fp.data, WrittenBotPos + TAG_BYTES)
    ELSE -1

\* C28: in every offset table mode the written file holds at most one offset
\* table that is not empty: with 'eot' and with None the basic offset table
\* item is empty, with 'bot' no extended offset table is written, and the
\* reader's test for both tables is false on the file.
C28_OneOffsetTable ==
    WriteStarted
    => /\ writer.offset_table \in {"eot", "none"} => WrittenBotLength = 0
       /\ writer.offset_table \in {"bot", "none"} => ~SomeEotTag
       /\ writer.offset_table = "bot"
              => WrittenBotLength = 4 * writer.number_of_frames
       /\ writer.offset_table = "eot" => WrittenEot
       /\ ~BothPresent(_read_bot(fp.data, WrittenBotPos).none, WrittenEot)

\* A file of two frames written with the extended offset table and opened.
C28_Witness ==
    /\ WriteStarted
    /\ writer.offset_table = "eot"
    /\ writer.pc = "closed"
    /\ reader.pc = "open"
    /\ Len(reader.frame_positions) = 2

\* A file of two frames written with the basic offset table and opened.
C28_WitnessBot ==
    /\ WriteStarted
    /\ writer.offset_table = "bot"
    /\ writer.pc = "closed"
    /\ reader.pc = "open"
    /\ Len(reader.frame_positions) = 2

----------------------------------------------------------------------------
(* write of one plane when the tile source raises for some tiles *)

MaxRaising == 2

\* The sets of tiles for which get_encoded_tiles raises.
RaisingTiles(tiled_size) ==
    {r \in SUBSET PlanePoints(tiled_size) : Cardinality(r) <= MaxRaising}

InitRaise ==
    /\ IdleIndex
    /\ fp = NewFile
    /\ reader = ClosedReader
    /\ frame_read = NoFrame
    /\ calls = None
    /\ stitch = None
    /\ opening = None
    /\ \E tiled_size \in PoolTiledSizes, chunk_size \in ChunkSizes,
          workers \in 1..MaxWorkers, offset_table \in OffsetTables :
          \E raising \in RaisingTiles(tiled_size) :
          LET source == PoolSource(tiled_size)
              chunks == _chunk_tile_points(tiled_size,
                            source.minimum_chunk_size, chunk_size, 1)
          IN /\ writer = NewWriter(source, offset_table, 1, chunk_size)
             /\ pool = [pc |-> "idle", source |-> source, scale |-> 1,
                        max_workers |-> workers, chunks |-> chunks,
                        raising |-> raising,
                        status |-> [i \in DOMAIN chunks |-> "new"],
                        results |-> [i \in DOMAIN chunks |-> <<>>],
                        drained |-> <<>>, frame_positions |-> <<>>]

\* write up to the call of pool.map for the plane.
StartWrite ==
    /\ writer.pc = "new"
    /\ pool.pc = "idle"
    /\ fp' = write_start(fp, writer).fp
    /\ writer' = write_start(fp, writer).writer
    /\ pool' = [pool EXCEPT !.pc = "map"]
    /\ UNCHANGED <<idxVars, reader, frame_read, calls, stitch, opening>>

\* get_tiles_thread for a chunk: the tiles, or the exception of a tile.
WorkerEnds(i) ==
    /\ pool.status[i] = "running"
    /\ pool' = IF \E k \in DOMAIN pool.chunks[i] :
                     pool.chunks[i][k] \in pool.raising
               THEN [pool EXCEPT !.status[i] = "raised"]
               ELSE [pool EXCEPT
                       !.status[i] = "done",
                       !.results[i] = get_tiles(pool.source, 1, pool.scale,
                                                pool.chunks[i])]
    /\ UNCHANGED <<idxVars, fileVars, calls, stitch, opening>>

\* Variant of Future.result that gives no tiles for a task that raised.
FutureResult_swallowed(status, result) ==
    [err |-> "none", v |-> IF status = "raised" THEN <<>> ELSE result]

\* Future.result() of a finished task: its result, or its exception raised
\* again.
FutureResult(status, result) ==
    IF status = "raised" THEN [err |-> "Exception", v |-> <<>>]
    ELSE [err |-> "none", v |-> result]

\* One turn of the loop over pool.map: the next result is taken and its tiles
\* are written, or its exception leaves the loop and the tasks not yet
\* started are cancelled.
DrainResult ==
    /\ pool.pc = "drain"
    /\ NextResult(pool) # 0
    /\ pool.status[NextResult(pool)] \in {"done", "raised"}
    /\ LET i == NextResult(pool)
           result == FutureResult(pool.status[i], pool.results[i])
           written == WriteTiles(fp, pool.frame_positions, result.v)
       IN IF result.err # "none"
          THEN /\ pool' = [pool EXCEPT
                             !.pc = "raised",
                             !.status = [j \in DOMAIN pool.status |->
                                           IF pool.status[j] = "queued"
                                           THEN "cancelled"
                                           ELSE pool.status[j]]]
               /\ fp' = fp
          ELSE /\ fp' = written.fp
               /\ pool' = [pool EXCEPT
                             !.drained = Append(@, i),
                             !.frame_positions = written.frame_positions]
    /\ UNCHANGED <<idxVars, writer, reader, frame_read, calls, stitch, opening>>

\* The exception leaves the pool's with block once the running workers have
\* ended, then _write_pixel_data and write.
WriteRaises ==
    /\ pool.pc = "raised"
    /\ writer.pc = "pixels"
    /\ Tasks("running") = {}
    /\ writer' = [writer EXCEPT !.pc = "raised", !.err = "Exception"]
    /\ UNCHANGED <<idxVars, fp, reader, frame_read, restVars>>

\* The loop ends, the pool is shut down and write goes on to its end.
WriteFinish ==
    /\ pool.pc = "drain"
    /\ NextResult(pool) = 0
    /\ LET w == [writer EXCEPT !.frame_positions = pool.frame_positions,
                               !.plane = 2]
       IN /\ fp' = write_end(fp, w).fp
          /\ writer' = write_end(fp, w).writer
    /\ pool' = [pool EXCEPT !.pc = "returned"]
    /\ UNCHANGED <<idxVars, reader, frame_read, calls, stitch, opening>>

NextRaise ==
    \/ StartWrite
    \/ Submit
    \/ \E i \in DOMAIN pool.chunks : WorkerStart(i)
    \/ \E i \in DOMAIN pool.chunks : WorkerEnds(i)
    \/ DrainResult
    \/ WriteRaises
    \/ WriteFinish

SpecRaise == InitRaise /\ [][NextRaise]_vars

\* The chunks whose tile production raises.
RaisingChunks ==
    {i \in DOMAIN pool.chunks :
        \E k \in DOMAIN pool.chunks[i] : pool.chunks[i][k] \in pool.raising}

\* The first of them.
FailingChunk == CHOOSE i \in RaisingChunks : \A j \in RaisingChunks : i <= j

\* The file after the start of write and the tiles of the first n chunks.
FileWithChunks(n) ==
    WriteTiles(write_start(NewFile, NewWriter(pool.source,
                                              writer.offset_table, 1,
                                              writer.chunk_size)).fp,
               <<>>,
               Flatten([i \in 1..n |->
                          get_tiles(pool.source, 1, 1, pool.chunks[i])])).fp

\* The count of tiles of the first n chunks.
TilesOfChunks(n) == Len(Flatten([i \in 1..n |-> pool.chunks[i]]))

RaiseWrite == "raising" \in DOMAIN pool

\* C29: when the tile production of a worker raises during write, write ends
\* with the exception raised to its caller and never returns, no frame of
\* the failing chunk or of a later chunk is written to the file, and the
\* offset table keeps its reserved zeros.
C29_WorkerRaises ==
    RaiseWrite /\ RaisingChunks # {}
    => /\ writer.pc \in {"new", "pixels", "raised"}
       /\ pool.pc # "returned"
       /\ Len(pool.frame_positions) <= TilesOfChunks(FailingChunk - 1)
       /\ \E n \in 0..(FailingChunk - 1) :
             writer.pc # "new" => fp = FileWithChunks(n)
       /\ writer.pc # "new" => ZeroFilled(fp.data, writer)
       /\ writer.pc = "raised"
             => /\ writer.err = "Exception"
                /\ fp = FileWithChunks(FailingChunk - 1)

\* A write whose second chunk raised after the tiles of the first were
\* written and while a later chunk had been produced.
C29_Witness ==
    /\ RaiseWrite
    /\ writer.pc = "raised"
    /\ FailingChunk = 2
    /\ Len(pool.frame_positions) > 0
    /\ \E i \in DOMAIN pool.chunks : i > 2 /\ pool.status[i] = "done"

\* A write without a raising tile that returned.
C29_WitnessReturned ==
    /\ RaiseWrite
    /\ RaisingChunks = {}
    /\ writer.pc = "closed"

----------------------------------------------------------------------------
(* ImageData.default_z *)

MaxZ == 4

MaxDeclaredPlanes == 3

\* The lists of focal planes of an image: distinct planes in the order of
\* the list made from their set.
FocalPlaneLists ==
    {planes \in UNION {[1..n -> 0..MaxZ] : n \in 1..MaxDeclaredPlanes} :
        \A i, j \in DOMAIN planes : i # j => planes[i] # planes[j]}

Distance(a, b) == IF a >= b THEN a - b ELSE b - a

\* Variant of default_z that takes the plane nearest to the mean of the
\* smallest and the largest plane.
default_z_midpoint(focal_planes) ==
    LET smallest == CHOOSE z \in Range(focal_planes) :
                        \A y \in Range(focal_planes) : z <= y
        largest == CHOOSE z \in Range(focal_planes) :
                       \A y \in Range(focal_planes) : z >= y
        key(i) == Distance(2 * focal_planes[i], largest + smallest)
        default == IF Len(focal_planes) > 1
                   THEN CHOOSE i \in DOMAIN focal_planes :
                          /\ \A j \in DOMAIN focal_planes : key(i) <= key(j)
                          /\ \A j \in 1..(i - 1) : key(j) > key(i)
                   ELSE 1
    IN focal_planes[default]

\* ImageData.default_z, the value computed: middle is half the difference
\* of the largest and the smallest plane, and min takes the first index of
\* the least key.  The keys are doubled to stay within the integers.
default_z(focal_planes) ==
    LET smallest == CHOOSE z \in Range(focal_planes) :
                        \A y \in Range(focal_planes) : z <= y
        largest == CHOOSE z \in Range(focal_planes) :
                       \A y \in Range(focal_planes) : z >= y
        key(i) == Distance(2 * focal_planes[i], largest - smallest)
        default == IF Len(focal_planes) > 1
                   THEN CHOOSE i \in DOMAIN focal_planes :
                          /\ \A j \in DOMAIN focal_planes : key(i) <= key(j)
                          /\ \A j \in 1..(i - 1) : key(j) > key(i)
                   ELSE 1
    IN focal_planes[default]

InitDefaultZ ==
    /\ \E focal_planes \in FocalPlaneLists :
          image_data = [kind |-> "image_data", focal_planes |-> focal_planes,
                        default_z |-> <<>>]
    /\ blank_cache = [tile |-> FALSE, encoded |-> FALSE]
    /\ file_reads = <<>>
    /\ tile_result = None
    /\ IdleFile
    /\ IdleRest

\* A read of the property: the value is computed once and kept (the empty
\* sequence stands for None).
DefaultZ ==
    /\ LET z == IF image_data.default_z = <<>>
                THEN default_z(image_data.focal_planes)
                ELSE image_data.default_z[1]
       IN /\ image_data' = [image_data EXCEPT !.default_z = <<z>>]
          /\ tile_result' = [out |-> "default_z", z |-> z,
                             reads |-> IF tile_result = None THEN 1 ELSE 2]
    /\ UNCHANGED <<blank_cache, file_reads, fileVars, restVars>>

NextDefaultZ == DefaultZ

SpecDefaultZ == InitDefaultZ /\ [][NextDefaultZ]_vars

DefaultZRead ==
    /\ tile_result # None
    /\ "out" \in DOMAIN tile_result
    /\ tile_result.out = "default_z"

Smallest == CHOOSE z \in Range(image_data.focal_planes) :
                \A y \in Range(image_data.focal_planes) : z <= y

Largest == CHOOSE z \in Range(image_data.focal_planes) :
               \A y \in Range(image_data.focal_planes) : z >= y

\* z is a declared plane with no declared plane nearer to the midpoint of
\* the smallest and the largest.
NearestToMidpoint(z) ==
    /\ z \in Range(image_data.focal_planes)
    /\ \A y \in Range(image_data.focal_planes) :
          Distance(2 * z, Smallest + Largest)
              <= Distance(2 * y, Smallest + Largest)

\* C30: default_z is the declared focal plane when one is declared, and
\* with several the declared plane nearest to the midpoint between the
\* smallest and the largest declared plane.
C30_DefaultZ ==
    DefaultZRead
    => IF Len(image_data.focal_planes) = 1
       THEN tile_result.z = image_data.focal_planes[1]
       ELSE NearestToMidpoint(tile_result.z)

\* The same for images with a single plane or whose smallest plane is 0.
C30_DefaultZFromZero ==
    DefaultZRead /\ (Len(image_data.focal_planes) = 1 \/ Smallest = 0)
    => NearestToMidpoint(tile_result.z)

\* Planes 2, 3, 4: the smallest is returned and not the plane in the middle.
C30_WitnessSmallest ==
    /\ DefaultZRead
    /\ image_data.focal_planes = <<2, 3, 4>>
    /\ tile_result.z = 2
    /\ tile_result.reads = 2
============================================================================
